---- MODULE Spec2Model ----
(***************************************************************************)
(* A model of the headless Vulkan ray-tracing harness:                     *)
(*   HeadlessAppVK  (src/src/headless_vk.cpp, headless_vk.hpp)              *)
(*   SampleExample  (src/src/sample_example.cpp, sample_example.hpp)        *)
(*   main           (src/src/main.cpp)                                      *)
(*                                                                         *)
(* Spec        the renderer switch, the frame state and the submission     *)
(*             engine of one SampleExample object, driven by its callers.  *)
(* SpecApp     the render-target manager of one HeadlessAppVK object:      *)
(*             setup (depth format probing), the create... functions and   *)
(*             destroy, over the device's objects.                         *)
(***************************************************************************)
EXTENDS Integers, Sequences, FiniteSets, TLC

VARIABLES
  phase,           \* "constructed" | "ready" | "crashed" | "torn"
  m_pRender,       \* SampleExample::m_pRender: slot -> state of the Renderer object
  m_rndMethod,     \* SampleExample::m_rndMethod
  m_rtxState,      \* SampleExample::m_rtxState (the frame counter)
  m_renderRegion,  \* SampleExample::m_renderRegion (VkRect2D)
  host,            \* where the host thread is: "idle" | "waitFence"
  inFlight,        \* command buffers submitted to m_queue and not yet completed
  idleWaited,      \* a vkDeviceWaitIdle has returned and nothing was submitted since
  fences,          \* live VkFence objects created by submitWork
  destroyLog,      \* every Renderer::destroy so far, with the device state it ran in
  lastCall,        \* the last member function called, its argument, pre-state and calls
  env,             \* the physical device, the build and the arguments of setup
  app,             \* the data members of HeadlessAppVK
  objs,            \* every object the device created: handle -> [kind, alive, ...]
  faults,          \* invalid uses of the device so far
  ncalls,          \* member functions called so far (SpecApp)
  pc,              \* main: the index in its program of the main thread's next statement
  loader,          \* main: the auxiliary thread: 0 before it starts, then the index of its next statement
  file,            \* the file headless.ppm: times opened, bytes written, closed
  trace,           \* main: the statements executed so far, by thread
  gpu              \* the queue: commands recorded and submitted, image layouts, copies executed

renderVars == <<m_pRender, m_rndMethod, m_rtxState, m_renderRegion, host,
                inFlight, idleWaited, fences, destroyLog>>
appVars == <<env, app, objs, faults, ncalls>>
mainVars == <<pc, loader, file, trace, gpu>>
vars == <<phase, lastCall, renderVars, appVars, mainVars>>

----------------------------------------------------------------------------
(* enum SampleExample::RndMethod *)
eRtxPipeline == 0
eRayQuery == 1
eNone == 2

RndMethod == {eRtxPipeline, eRayQuery, eNone}

(* std::array<Renderer*, eNone> m_pRender: the valid slot indices *)
Slots == 0 .. (eNone - 1)

----------------------------------------------------------------------------
(* VkRect2D {VkOffset2D{int32 x, y}, VkExtent2D{uint32 width, height}}:     *)
(* 16 bytes, no padding. The regions the callers are given to pass.         *)
SAMPLE_WIDTH == 1008
SAMPLE_HEIGHT == 660

Regions == [x : {-1, 0}, y : {0}, width : {0, 256, SAMPLE_WIDTH}, height : {0, SAMPLE_HEIGHT}]

(* byte k (0 = lowest) of a 32-bit two's complement or unsigned value *)
ByteOf(v, k) == (v \div (256 ^ k)) % 256

(* the object representation of a 32-bit value, little endian *)
Bytes32(v) == [k \in 1 .. 4 |-> ByteOf(v, k - 1)]

(* the 16 bytes memcmp sees at &rect *)
RectBytes(r) == Bytes32(r.x) \o Bytes32(r.y) \o Bytes32(r.width) \o Bytes32(r.height)

(* memcmp(a, b, n): the sign of the first differing byte, 0 when none differs *)
memcmp(a, b, n) ==
  LET diff == {i \in 1 .. n : a[i] /= b[i]}
  IN  IF diff = {} THEN 0
      ELSE LET i == CHOOSE j \in diff : \A k \in diff : j <= k
           IN  IF a[i] < b[i] THEN -1 ELSE 1

(* SampleExample::resetFrame: m_rtxState.frame = -1 *)
resetFrame(st) == [st EXCEPT !.frame = -1]

----------------------------------------------------------------------------
(* The calls a member function makes on the device, on the renderer         *)
(* backends and on its own object, in program order.                        *)
WaitIdle == <<"vkDeviceWaitIdle">>
ResetFrameCall == <<"resetFrame">>
Destroy(slot) == <<"destroy", slot>>
Create(slot) == <<"create", slot>>
SetPushContants(slot, st) == <<"setPushContants", slot, st.frame>>
RunCall(slot) == <<"run", slot>>

(* Variants of createRender with one slip each.                             *)
(* ... without the "if(method == m_rndMethod) return;" *)
createRender_noEarlyReturn(sel, method) ==
  [m_rndMethod |-> method,
   calls |-> (IF sel /= eNone THEN <<WaitIdle, Destroy(sel)>> ELSE <<>>)
             \o <<Create(method)>>]

(* ... creating the new backend before the old one is destroyed *)
createRender_createFirst(sel, method) ==
  IF method = sel
  THEN [m_rndMethod |-> sel, calls |-> <<>>]
  ELSE [m_rndMethod |-> method,
        calls |-> <<Create(method)>>
                  \o (IF sel /= eNone THEN <<WaitIdle, Destroy(sel)>> ELSE <<>>)]

(* ... never destroying the old backend *)
createRender_noDestroy(sel, method) ==
  IF method = sel
  THEN [m_rndMethod |-> sel, calls |-> <<>>]
  ELSE [m_rndMethod |-> method, calls |-> <<Create(method)>>]

(* ... without the vkDeviceWaitIdle before the destroy *)
createRender_noWait(sel, method) ==
  IF method = sel
  THEN [m_rndMethod |-> sel, calls |-> <<>>]
  ELSE [m_rndMethod |-> method,
        calls |-> (IF sel /= eNone THEN <<Destroy(sel)>> ELSE <<>>)
                  \o <<Create(method)>>]

(* ... calling resetFrame() itself after the switch *)
createRender_resets(sel, method) ==
  IF method = sel
  THEN [m_rndMethod |-> sel, calls |-> <<>>]
  ELSE [m_rndMethod |-> method,
        calls |-> (IF sel /= eNone THEN <<WaitIdle, Destroy(sel)>> ELSE <<>>)
                  \o <<Create(method), ResetFrameCall>>]

(* SampleExample::createRender: the selection it leaves and the calls it    *)
(* makes, for the selection sel it finds.                                   *)
createRender(sel, method) ==
  IF method = sel
  THEN [m_rndMethod |-> sel, calls |-> <<>>]
  ELSE [m_rndMethod |-> method,
        calls |-> (IF sel /= eNone THEN <<WaitIdle, Destroy(sel)>> ELSE <<>>)
                  \o <<Create(method)>>]

(* a setRenderRegion that compares the extents only *)
setRenderRegion_extentOnly(region, size) ==
  [m_renderRegion |-> size,
   calls |-> IF region.width /= size.width \/ region.height /= size.height
             THEN <<ResetFrameCall>> ELSE <<>>]

(* SampleExample::setRenderRegion: the region it stores and the calls it    *)
(* makes, for the stored region it finds. sizeof(VkRect2D) = 16.            *)
setRenderRegion(region, size) ==
  [m_renderRegion |-> size,
   calls |-> IF memcmp(RectBytes(region), RectBytes(size), 16) /= 0
             THEN <<ResetFrameCall>> ELSE <<>>]


(* the default of m_maxFrames *)
m_maxFrames == 100000

(* a renderScene that renders whatever the frame counter *)
renderScene_noLimit(st, method, maxFrames) ==
  [m_rtxState |-> st, calls |-> <<SetPushContants(method, st), RunCall(method)>>]

(* SampleExample::renderScene: the calls on m_pRender[m_rndMethod] and the  *)
(* state it leaves                                                          *)
renderScene(st, method, maxFrames) ==
  IF st.frame >= maxFrames THEN [m_rtxState |-> st, calls |-> <<>>]
  ELSE [m_rtxState |-> st, calls |-> <<SetPushContants(method, st), RunCall(method)>>]

(* SampleExample::destroyResources: "for(auto p : m_pRender) p->destroy()"  *)
destroyResources == [i \in 1 .. eNone |-> Destroy(i - 1)]

(* The device and the backends as the calls act on them.                    *)
(* d = [m_pRender, m_rtxState, inFlight, idleWaited, idleAtEntry,           *)
(*      destroyLog, crashed]; idleAtEntry is idleWaited as the member       *)
(* function found it                                                        *)
ExecCall(d, c, by) ==
  IF d.crashed THEN d
  ELSE IF c[1] = "vkDeviceWaitIdle"
  THEN [d EXCEPT !.inFlight = 0, !.idleWaited = TRUE]
  ELSE IF c[1] = "resetFrame"
  THEN [d EXCEPT !.m_rtxState = resetFrame(d.m_rtxState)]
  ELSE IF c[2] \notin Slots
  THEN \* m_pRender[eNone] is one past the array: no Renderer is there
       [d EXCEPT !.crashed = TRUE]
  ELSE IF c[1] \in {"setPushContants", "run"}
  THEN \* the backend takes the state and records its commands
       d
  ELSE IF c[1] = "destroy"
  THEN [d EXCEPT !.m_pRender[c[2]] = "destroyed",
                 !.destroyLog = @ \cup {[slot |-> c[2], by |-> by, was |-> d.m_pRender[c[2]],
                                         idleAtEntry |-> d.idleAtEntry,
                                         idleWaited |-> d.idleWaited,
                                         inFlight |-> d.inFlight]}]
  ELSE [d EXCEPT !.m_pRender[c[2]] = "created"]

RECURSIVE Exec(_, _, _)
Exec(d, calls, by) ==
  IF calls = <<>> THEN d
  ELSE Exec(ExecCall(d, Head(calls), by), Tail(calls), by)

Device == [m_pRender |-> m_pRender, m_rtxState |-> m_rtxState, inFlight |-> inFlight,
           idleWaited |-> idleWaited, idleAtEntry |-> idleWaited,
           destroyLog |-> destroyLog, crashed |-> FALSE]

SetDevice(d) ==
  /\ m_pRender' = d.m_pRender
  /\ m_rtxState' = d.m_rtxState
  /\ inFlight' = d.inFlight
  /\ idleWaited' = d.idleWaited
  /\ destroyLog' = d.destroyLog
  /\ phase' = IF d.crashed THEN "crashed" ELSE phase

(* what lastCall remembers of a call *)
Call(op, arg, calls, returned) ==
  [op |-> op, arg |-> arg, calls |-> calls, returned |-> returned,
   preMethod |-> m_rndMethod, preFrame |-> m_rtxState.frame, preRegion |-> m_renderRegion]

NoCall == [op |-> "none", arg |-> 0, calls |-> <<>>, returned |-> TRUE,
           preMethod |-> eNone, preFrame |-> 0,
           preRegion |-> [x |-> 0, y |-> 0, width |-> 0, height |-> 0]]

----------------------------------------------------------------------------
(* HeadlessAppVK: formats, device properties, handles                       *)

(* enum VkFormat *)
VK_FORMAT_UNDEFINED == 0
VK_FORMAT_B8G8R8A8_UNORM == 44
VK_FORMAT_D16_UNORM_S8_UINT == 128
VK_FORMAT_D24_UNORM_S8_UINT == 129
VK_FORMAT_D32_SFLOAT_S8_UINT == 130

(* the initializer list the probing loop of setup walks *)
DepthCandidates ==
  <<VK_FORMAT_D24_UNORM_S8_UINT, VK_FORMAT_D32_SFLOAT_S8_UINT, VK_FORMAT_D16_UNORM_S8_UINT>>

(* VkFormatFeatureFlags / VkMemoryPropertyFlags / VkImageAspectFlags: a     *)
(* mask is the set of its bits, "a & b" is their intersection.              *)
VK_FORMAT_FEATURE_DEPTH_STENCIL_ATTACHMENT_BIT == {"DEPTH_STENCIL_ATTACHMENT"}
VK_MEMORY_PROPERTY_DEVICE_LOCAL_BIT == {"DEVICE_LOCAL"}

(* the optimalTilingFeatures a device may report for a candidate *)
FeatureMasks ==
  {{"SAMPLED_IMAGE"}, {"DEPTH_STENCIL_ATTACHMENT"}, {"SAMPLED_IMAGE", "DEPTH_STENCIL_ATTACHMENT"}}

VK_NULL_HANDLE == 0
(* what an uninitialized handle member may hold besides null: a value that  *)
(* names no object                                                          *)
Garbage == -1
(* ~0u, the index getMemoryType returns when its assert is compiled out     *)
NoMemoryType == -1

(* a probing loop without its "break": the last qualifying candidate wins   *)
RECURSIVE ProbeDepthFormat_noBreak(_, _, _)
ProbeDepthFormat_noBreak(props, i, cur) ==
  IF i > Len(DepthCandidates) THEN cur
  ELSE LET f == DepthCandidates[i]
           feature == VK_FORMAT_FEATURE_DEPTH_STENCIL_ATTACHMENT_BIT
       IN  IF (props[f] \cap feature) = feature
           THEN ProbeDepthFormat_noBreak(props, i + 1, f)
           ELSE ProbeDepthFormat_noBreak(props, i + 1, cur)

(* the probing loop of HeadlessAppVK::setup from candidate i on: the first  *)
(* candidate whose optimalTilingFeatures contain the feature, else cur      *)
RECURSIVE ProbeDepthFormat(_, _, _)
ProbeDepthFormat(props, i, cur) ==
  IF i > Len(DepthCandidates) THEN cur
  ELSE LET f == DepthCandidates[i]
           feature == VK_FORMAT_FEATURE_DEPTH_STENCIL_ATTACHMENT_BIT
       IN  IF (props[f] \cap feature) = feature
           THEN f
           ELSE ProbeDepthFormat(props, i + 1, cur)

(* HeadlessAppVK::getMemoryType: the scan "for(i = 0; i < memoryTypeCount;  *)
(* i++)" from index i on. memoryTypes is 1-based here, typeBits is the set  *)
(* of the bit numbers set in the mask.                                      *)
RECURSIVE ScanMemoryTypes_anyFlag(_, _, _, _)
ScanMemoryTypes_anyFlag(memoryTypes, typeBits, properties, i) ==
  IF i >= Len(memoryTypes) THEN NoMemoryType
  ELSE IF i \in typeBits /\ (memoryTypes[i + 1] \cap properties) /= {}
       THEN i
       ELSE ScanMemoryTypes_anyFlag(memoryTypes, typeBits, properties, i + 1)

RECURSIVE ScanMemoryTypes(_, _, _, _)
ScanMemoryTypes(memoryTypes, typeBits, properties, i) ==
  IF i >= Len(memoryTypes) THEN NoMemoryType
  ELSE IF i \in typeBits /\ (memoryTypes[i + 1] \cap properties) = properties
       THEN i
       ELSE ScanMemoryTypes(memoryTypes, typeBits, properties, i + 1)

getMemoryType(typeBits, properties) ==
  ScanMemoryTypes(env.memoryTypes, typeBits, properties, 0)

----------------------------------------------------------------------------
(* The statements of a member function that touch the device or a data      *)
(* member, in program order. A statement names the members it reads and     *)
(* writes; RunStmt gives it its meaning.                                    *)
Set(member, value) == <<"set", member, value>>
VkCreate(fn, member, info) == <<"create", fn, member, info>>
VkDestroy(fn, member) == <<"destroy", fn, member>>
VkAllocateMemory(member, image, properties) == <<"allocate", member, image, properties>>
VkBindImageMemory(image, memory) == <<"bind", image, memory>>
VkCreateImageView(member, image, format, aspect) == <<"view", member, image, format, aspect>>
VkCreateFramebuffer(member, renderPass, attachments) ==
  <<"framebuffer", member, renderPass, attachments>>
VkDeviceWaitIdle == <<"waitIdle">>
VkBeginCommandBuffer(member) == <<"begin", member>>

(* "if(h) stmt" *)
IfHandle(m, member, stmt) == IF m[member] /= VK_NULL_HANDLE THEN <<stmt>> ELSE <<>>


(* a setup that probes the device whatever the caller supplies *)
setup_alwaysProbes(m, depthFormat) ==
  <<Set("m_depthFormat", depthFormat),
    VkCreate("vkCreateCommandPool", "m_cmdPool", <<>>),
    VkCreate("vkCreatePipelineCache", "m_pipelineCache", <<>>),
    Set("m_depthFormat", ProbeDepthFormat(env.formatProps, 1, depthFormat))>>

(* HeadlessAppVK::setup *)
setup(m, depthFormat) ==
  <<Set("m_depthFormat", depthFormat),
    VkCreate("vkCreateCommandPool", "m_cmdPool", <<>>),
    VkCreate("vkCreatePipelineCache", "m_pipelineCache", <<>>)>>
  \o (IF depthFormat = VK_FORMAT_UNDEFINED
      THEN <<Set("m_depthFormat", ProbeDepthFormat(env.formatProps, 1, depthFormat))>>
      ELSE <<>>)

(* a createColorBuffer that destroys the old image before its view *)
createColorBuffer_imageFirst(m) ==
  IfHandle(m, "m_colorImage", VkDestroy("vkDestroyImage", "m_colorImage"))
  \o IfHandle(m, "m_colorView", VkDestroy("vkDestroyImageView", "m_colorView"))
  \o IfHandle(m, "m_colorMemory", VkDestroy("vkFreeMemory", "m_colorMemory"))
  \o <<VkCreate("vkCreateImage", "m_colorImage", <<m.m_colorFormat>>),
       VkAllocateMemory("m_colorMemory", "m_colorImage", VK_MEMORY_PROPERTY_DEVICE_LOCAL_BIT),
       VkBindImageMemory("m_colorImage", "m_colorMemory"),
       VkCreateImageView("m_colorView", "m_colorImage", m.m_colorFormat, {"COLOR"})>>

(* HeadlessAppVK::createColorBuffer without the vkFreeMemory of the old     *)
(* allocation                                                               *)
createColorBuffer_leaksMemory(m) ==
  IfHandle(m, "m_colorView", VkDestroy("vkDestroyImageView", "m_colorView"))
  \o IfHandle(m, "m_colorImage", VkDestroy("vkDestroyImage", "m_colorImage"))
  \o <<VkCreate("vkCreateImage", "m_colorImage", <<m.m_colorFormat>>),
       VkAllocateMemory("m_colorMemory", "m_colorImage", VK_MEMORY_PROPERTY_DEVICE_LOCAL_BIT),
       VkBindImageMemory("m_colorImage", "m_colorMemory"),
       VkCreateImageView("m_colorView", "m_colorImage", m.m_colorFormat, {"COLOR"})>>

(* HeadlessAppVK::createColorBuffer *)
createColorBuffer(m) ==
  IfHandle(m, "m_colorView", VkDestroy("vkDestroyImageView", "m_colorView"))
  \o IfHandle(m, "m_colorImage", VkDestroy("vkDestroyImage", "m_colorImage"))
  \o IfHandle(m, "m_colorMemory", VkDestroy("vkFreeMemory", "m_colorMemory"))
  \o <<VkCreate("vkCreateImage", "m_colorImage", <<m.m_colorFormat>>),
       VkAllocateMemory("m_colorMemory", "m_colorImage", VK_MEMORY_PROPERTY_DEVICE_LOCAL_BIT),
       VkBindImageMemory("m_colorImage", "m_colorMemory"),
       VkCreateImageView("m_colorView", "m_colorImage", m.m_colorFormat, {"COLOR"})>>


(* an aspect mask that takes D16_UNORM_S8_UINT itself for a depth-only      *)
(* format                                                                   *)
DepthAspect_above(depthFormat) ==
  {"DEPTH"} \cup (IF depthFormat > VK_FORMAT_D16_UNORM_S8_UINT THEN {"STENCIL"} ELSE {})

(* the aspect mask createDepthBuffer gives the depth view *)
DepthAspect(depthFormat) ==
  {"DEPTH"} \cup (IF depthFormat >= VK_FORMAT_D16_UNORM_S8_UINT THEN {"STENCIL"} ELSE {})

(* HeadlessAppVK::createDepthBuffer *)
createDepthBuffer(m) ==
  IfHandle(m, "m_depthView", VkDestroy("vkDestroyImageView", "m_depthView"))
  \o IfHandle(m, "m_depthImage", VkDestroy("vkDestroyImage", "m_depthImage"))
  \o IfHandle(m, "m_depthMemory", VkDestroy("vkFreeMemory", "m_depthMemory"))
  \o <<VkCreate("vkCreateImage", "m_depthImage", <<m.m_depthFormat>>),
       VkAllocateMemory("m_depthMemory", "m_depthImage", VK_MEMORY_PROPERTY_DEVICE_LOCAL_BIT),
       VkBindImageMemory("m_depthImage", "m_depthMemory"),
       VkCreateImageView("m_depthView", "m_depthImage", m.m_depthFormat,
                         DepthAspect(m.m_depthFormat))>>

(* a createRenderPass that ignores m_useDynamicRendering *)
createRenderPass_always(m) ==
  IfHandle(m, "m_renderPass", VkDestroy("vkDestroyRenderPass", "m_renderPass"))
  \o <<VkCreate("vkCreateRenderPass", "m_renderPass", <<m.m_colorFormat, m.m_depthFormat>>)>>

(* HeadlessAppVK::createRenderPass *)
createRenderPass(m) ==
  IF m.m_useDynamicRendering THEN <<>>
  ELSE IfHandle(m, "m_renderPass", VkDestroy("vkDestroyRenderPass", "m_renderPass"))
       \o <<VkCreate("vkCreateRenderPass", "m_renderPass", <<m.m_colorFormat, m.m_depthFormat>>)>>

(* a createFrameBuffer that does not destroy the framebuffer it replaces *)
createFrameBuffer_noDestroy(m) ==
  IF m.m_useDynamicRendering THEN <<>>
  ELSE <<VkCreateFramebuffer("m_framebuffer", "m_renderPass", <<"m_colorView", "m_depthView">>)>>

(* a createFrameBuffer that attaches the color view only *)
createFrameBuffer_colorOnly(m) ==
  IF m.m_useDynamicRendering THEN <<>>
  ELSE <<VkDestroy("vkDestroyFramebuffer", "m_framebuffer"),
         VkCreateFramebuffer("m_framebuffer", "m_renderPass", <<"m_colorView">>)>>

(* HeadlessAppVK::createFrameBuffer *)
createFrameBuffer(m) ==
  IF m.m_useDynamicRendering THEN <<>>
  ELSE <<VkDestroy("vkDestroyFramebuffer", "m_framebuffer"),
         VkCreateFramebuffer("m_framebuffer", "m_renderPass", <<"m_colorView", "m_depthView">>)>>

(* a createCommandBuffer that does not free the buffer it replaces *)
createCommandBuffer_noFree(m) ==
  <<VkCreate("vkAllocateCommandBuffers", "m_commandBuffer", <<"m_cmdPool", "initial">>),
    VkBeginCommandBuffer("m_commandBuffer")>>

(* HeadlessAppVK::createCommandBuffer *)
createCommandBuffer(m) ==
  IfHandle(m, "m_commandBuffer", VkDestroy("vkFreeCommandBuffers", "m_commandBuffer"))
  \o <<VkCreate("vkAllocateCommandBuffers", "m_commandBuffer", <<"m_cmdPool", "initial">>),
       VkBeginCommandBuffer("m_commandBuffer")>>


(* a destroy that destroys the framebuffer before the render pass and the   *)
(* views                                                                    *)
destroy_framebufferFirst(m) ==
  <<VkDeviceWaitIdle, VkDestroy("vkDestroyFramebuffer", "m_framebuffer")>>
  \o (IF ~m.m_useDynamicRendering
      THEN <<VkDestroy("vkDestroyRenderPass", "m_renderPass")>> ELSE <<>>)
  \o <<VkDestroy("vkDestroyImageView", "m_depthView"),
       VkDestroy("vkDestroyImage", "m_depthImage"),
       VkDestroy("vkFreeMemory", "m_depthMemory"),
       VkDestroy("vkDestroyPipelineCache", "m_pipelineCache"),
       VkDestroy("vkDestroyImageView", "m_colorView"),
       VkDestroy("vkDestroyImage", "m_colorImage"),
       VkDestroy("vkFreeMemory", "m_colorMemory"),
       VkDestroy("vkFreeCommandBuffers", "m_commandBuffer"),
       VkDestroy("vkDestroyFence", "m_waitFence"),
       VkDestroy("vkDestroyDescriptorPool", "m_imguiDescPool"),
       VkDestroy("vkDestroyCommandPool", "m_cmdPool")>>

(* HeadlessAppVK::destroy *)
destroy(m) ==
  <<VkDeviceWaitIdle>>
  \o (IF ~m.m_useDynamicRendering
      THEN <<VkDestroy("vkDestroyRenderPass", "m_renderPass")>> ELSE <<>>)
  \o <<VkDestroy("vkDestroyImageView", "m_depthView"),
       VkDestroy("vkDestroyImage", "m_depthImage"),
       VkDestroy("vkFreeMemory", "m_depthMemory"),
       VkDestroy("vkDestroyPipelineCache", "m_pipelineCache"),
       VkDestroy("vkDestroyImageView", "m_colorView"),
       VkDestroy("vkDestroyImage", "m_colorImage"),
       VkDestroy("vkFreeMemory", "m_colorMemory"),
       VkDestroy("vkDestroyFramebuffer", "m_framebuffer"),
       VkDestroy("vkFreeCommandBuffers", "m_commandBuffer"),
       VkDestroy("vkDestroyFence", "m_waitFence"),
       VkDestroy("vkDestroyDescriptorPool", "m_imguiDescPool"),
       VkDestroy("vkDestroyCommandPool", "m_cmdPool")>>

----------------------------------------------------------------------------
(* The device as the statements act on it.                                  *)
(* a = [m, objs, faults, log, status]: the data members, the object table,  *)
(* the invalid uses, the Vulkan calls made and "ok" | "aborted" | "invalid" *)
KindOf(fn) ==
  CASE fn \in {"vkCreateImage", "vkDestroyImage"} -> "image"
    [] fn \in {"vkDestroyImageView"} -> "view"
    [] fn \in {"vkFreeMemory"} -> "memory"
    [] fn \in {"vkCreateRenderPass", "vkDestroyRenderPass"} -> "renderPass"
    [] fn \in {"vkDestroyFramebuffer"} -> "framebuffer"
    [] fn \in {"vkAllocateCommandBuffers", "vkFreeCommandBuffers"} -> "commandBuffer"
    [] fn \in {"vkCreateCommandPool", "vkDestroyCommandPool"} -> "commandPool"
    [] fn \in {"vkCreatePipelineCache", "vkDestroyPipelineCache"} -> "pipelineCache"
    [] fn \in {"vkDestroyDescriptorPool"} -> "descriptorPool"
    [] OTHER -> "fence"

IsObject(objects, h) == h \in 1 .. Len(objects)
IsLive(objects, h) == IsObject(objects, h) /\ objects[h].alive

(* a new object: its handle is the next index of the table *)
NewObject(a, fn, kind, member, info, refs) ==
  LET h == Len(a.objs) + 1
  IN  [a EXCEPT !.objs = Append(@, [kind |-> kind, alive |-> TRUE, member |-> member,
                                    info |-> info, refs |-> refs]),
                !.m[member] = h,
                !.log = Append(@, <<fn, member, h>>)]

RunStmt(a, st) ==
  IF a.status /= "ok" THEN a
  ELSE CASE st[1] = "set" -> [a EXCEPT !.m[st[2]] = st[3]]
    [] st[1] = "waitIdle" -> [a EXCEPT !.log = Append(@, <<"vkDeviceWaitIdle", "", 0>>)]
    [] st[1] = "create" -> NewObject(a, st[2], KindOf(st[2]), st[3], st[4], {})
    [] st[1] = "view" ->
         NewObject(a, "vkCreateImageView", "view", st[2], <<st[4], st[5]>>, {a.m[st[3]]})
    [] st[1] = "framebuffer" ->
         NewObject(a, "vkCreateFramebuffer", "framebuffer", st[2], <<>>,
                   {a.m[st[3]]} \cup {a.m[st[4][i]] : i \in 1 .. Len(st[4])})
    [] st[1] = "allocate" ->
         \* vkGetImageMemoryRequirements, getMemoryType, vkAllocateMemory
         LET index == getMemoryType(env.memoryTypeBits, st[4])
         IN  IF index /= NoMemoryType
             THEN NewObject(a, "vkAllocateMemory", "memory", st[2], <<index>>, {})
             ELSE IF env.asserts
             THEN \* assert(0)
                  [a EXCEPT !.status = "aborted"]
             ELSE \* return ~0u; vkAllocateMemory is given an index outside the table
                  [a EXCEPT !.status = "invalid",
                            !.log = Append(@, <<"vkAllocateMemory", st[2], index>>),
                            !.faults = @ \cup {[fn |-> "vkAllocateMemory", member |-> st[2],
                                               why |-> "memoryTypeIndex"]}]
    [] st[1] = "bind" ->
         [a EXCEPT !.objs[a.m[st[2]]].refs = @ \cup {a.m[st[3]]},
                   !.log = Append(@, <<"vkBindImageMemory", st[2], a.m[st[3]]>>)]
    [] st[1] = "begin" ->
         \* vkBeginCommandBuffer: the buffer the member holds is recording
         [a EXCEPT !.objs[a.m[st[2]]].info[2] = "recording",
                   !.log = Append(@, <<"vkBeginCommandBuffer", st[2], a.m[st[2]]>>)]
    [] OTHER ->
         \* "destroy": vkDestroy... and vkFree... of the handle the member holds
         LET h == a.m[st[3]]
             b == [a EXCEPT !.log = Append(@, <<st[2], st[3], h>>)]
         IN  IF h = VK_NULL_HANDLE THEN b
             ELSE IF IsLive(a.objs, h) THEN [b EXCEPT !.objs[h].alive = FALSE]
             ELSE [b EXCEPT !.faults = @ \cup
                     {[fn |-> st[2], member |-> st[3],
                       why |-> IF IsObject(a.objs, h) THEN "destroyed" ELSE "garbage"]}]

RECURSIVE Run(_, _)
Run(a, stmts) ==
  IF stmts = <<>> THEN a
  ELSE CHOOSE r \in {Run(b, Tail(stmts)) : b \in {RunStmt(a, Head(stmts))}} : TRUE

(* the members the class leaves without an initializer (headless_vk.hpp)    *)
Uninitialized == {"m_framebuffer", "m_commandBuffer", "m_waitFence"}

(* a default-initialized HeadlessAppVK; u gives the uninitialized members   *)
Constructed(u) ==
  [m_cmdPool |-> VK_NULL_HANDLE, m_imguiDescPool |-> VK_NULL_HANDLE,
   m_framebuffer |-> u["m_framebuffer"], m_commandBuffer |-> u["m_commandBuffer"],
   m_waitFence |-> u["m_waitFence"],
   m_colorImage |-> VK_NULL_HANDLE, m_colorMemory |-> VK_NULL_HANDLE,
   m_colorView |-> VK_NULL_HANDLE,
   m_depthImage |-> VK_NULL_HANDLE, m_depthMemory |-> VK_NULL_HANDLE,
   m_depthView |-> VK_NULL_HANDLE,
   m_renderPass |-> VK_NULL_HANDLE, m_pipelineCache |-> VK_NULL_HANDLE,
   m_colorFormat |-> VK_FORMAT_B8G8R8A8_UNORM, m_depthFormat |-> VK_FORMAT_UNDEFINED,
   m_useDynamicRendering |-> FALSE]

(* Physical devices. A memory type is its propertyFlags; memoryTypeBits is  *)
(* what vkGetImageMemoryRequirements reports for the images created here.   *)
AllDepthFormats == [f \in {DepthCandidates[i] : i \in 1 .. Len(DepthCandidates)} |->
                      {"SAMPLED_IMAGE", "DEPTH_STENCIL_ATTACHMENT"}]

MemoryDevices ==
  { [memoryTypes |-> <<{"HOST_VISIBLE", "HOST_COHERENT"}, {"DEVICE_LOCAL"},
                       {"DEVICE_LOCAL", "HOST_VISIBLE"}>>, memoryTypeBits |-> {0, 1, 2}],
    [memoryTypes |-> <<{"HOST_VISIBLE", "HOST_COHERENT"}, {"DEVICE_LOCAL"},
                       {"DEVICE_LOCAL", "HOST_VISIBLE"}>>, memoryTypeBits |-> {0}],
    [memoryTypes |-> <<{"HOST_VISIBLE", "HOST_COHERENT"}>>, memoryTypeBits |-> {0}] }

(* the depthFormat argument of setup: its default, or a format the caller   *)
(* supplies (126 is VK_FORMAT_D32_SFLOAT, 130 VK_FORMAT_D32_SFLOAT_S8_UINT) *)
CallerDepthFormats == {VK_FORMAT_UNDEFINED, 126, VK_FORMAT_D32_SFLOAT_S8_UINT}

(* a device on which no candidate qualifies *)
NoDepthFormats == [f \in DOMAIN AllDepthFormats |-> {"SAMPLED_IMAGE"}]

(* devices and arguments for the depth format probing of setup: every       *)
(* device when the caller gives no format, the two extreme devices when it  *)
(* gives one                                                                *)
ProbeEnvs ==
  { [formatProps |-> x[1], memoryTypes |-> <<{"DEVICE_LOCAL"}>>, memoryTypeBits |-> {0},
     asserts |-> TRUE, depthFormat |-> x[2]] :
      x \in {y \in [DOMAIN AllDepthFormats -> FeatureMasks] \X CallerDepthFormats :
                y[2] = VK_FORMAT_UNDEFINED \/ y[1] \in {AllDepthFormats, NoDepthFormats}} }

(* devices and builds for the render-target life cycle *)
ResourceEnvs ==
  { [formatProps |-> AllDepthFormats, memoryTypes |-> md.memoryTypes,
     memoryTypeBits |-> md.memoryTypeBits, asserts |-> as,
     depthFormat |-> VK_FORMAT_UNDEFINED] :
      md \in MemoryDevices, as \in BOOLEAN }

DefaultEnv ==
  [formatProps |-> AllDepthFormats, memoryTypes |-> <<{"DEVICE_LOCAL"}>>,
   memoryTypeBits |-> {0}, asserts |-> TRUE, depthFormat |-> VK_FORMAT_UNDEFINED]

(* what lastCall remembers of a call on the HeadlessAppVK object: run is    *)
(* the number of consecutive calls of op up to this one                     *)
AppCall(op, a) ==
  [op |-> op, run |-> IF lastCall.op = op THEN lastCall.run + 1 ELSE 1,
   log |-> a.log, returned |-> a.status = "ok", pre |-> app]

NoAppCall == [op |-> "none", run |-> 0, log |-> <<>>, returned |-> TRUE,
              pre |-> Constructed([x \in Uninitialized |-> VK_NULL_HANDLE])]

----------------------------------------------------------------------------
(* The queue: image layouts and the commands that change or rely on them    *)

VK_IMAGE_LAYOUT_UNDEFINED == "UNDEFINED"
VK_IMAGE_LAYOUT_GENERAL == "GENERAL"
VK_IMAGE_LAYOUT_COLOR_ATTACHMENT_OPTIMAL == "COLOR_ATTACHMENT_OPTIMAL"
VK_IMAGE_LAYOUT_DEPTH_STENCIL_ATTACHMENT_OPTIMAL == "DEPTH_STENCIL_ATTACHMENT_OPTIMAL"
VK_IMAGE_LAYOUT_TRANSFER_SRC_OPTIMAL == "TRANSFER_SRC_OPTIMAL"
VK_IMAGE_LAYOUT_TRANSFER_DST_OPTIMAL == "TRANSFER_DST_OPTIMAL"

(* the images whose layout is followed: the render targets and the          *)
(* destination image of dumpImage                                           *)
Images == {"m_colorImage", "m_depthImage", "dstImage"}

(* a render pass that leaves the color attachment in the layout of the      *)
(* subpass                                                                  *)
attachments_keepsColorLayout ==
  <<[image |-> "m_colorImage", initialLayout |-> VK_IMAGE_LAYOUT_UNDEFINED,
     layout |-> VK_IMAGE_LAYOUT_COLOR_ATTACHMENT_OPTIMAL,
     finalLayout |-> VK_IMAGE_LAYOUT_COLOR_ATTACHMENT_OPTIMAL],
    [image |-> "m_depthImage", initialLayout |-> VK_IMAGE_LAYOUT_UNDEFINED,
     layout |-> VK_IMAGE_LAYOUT_DEPTH_STENCIL_ATTACHMENT_OPTIMAL,
     finalLayout |-> VK_IMAGE_LAYOUT_DEPTH_STENCIL_ATTACHMENT_OPTIMAL]>>

(* HeadlessAppVK::createRenderPass, attachments and their references: the   *)
(* image behind each attachment of the framebuffer, the layout it is taken  *)
(* from, the layout of the subpass and the layout the pass leaves it in     *)
attachments ==
  <<[image |-> "m_colorImage", initialLayout |-> VK_IMAGE_LAYOUT_UNDEFINED,
     layout |-> VK_IMAGE_LAYOUT_COLOR_ATTACHMENT_OPTIMAL,
     finalLayout |-> VK_IMAGE_LAYOUT_TRANSFER_SRC_OPTIMAL],
    [image |-> "m_depthImage", initialLayout |-> VK_IMAGE_LAYOUT_UNDEFINED,
     layout |-> VK_IMAGE_LAYOUT_DEPTH_STENCIL_ATTACHMENT_OPTIMAL,
     finalLayout |-> VK_IMAGE_LAYOUT_DEPTH_STENCIL_ATTACHMENT_OPTIMAL]>>

(* the commands recorded *)
CmdBeginRenderPass == <<"vkCmdBeginRenderPass">>
CmdEndRenderPass == <<"vkCmdEndRenderPass">>
CmdPipelineBarrier(image, oldLayout, newLayout) ==
  <<"vkCmdPipelineBarrier", image, oldLayout, newLayout>>
CmdCopyImage(srcImage, srcImageLayout, dstImage, dstImageLayout) ==
  <<"vkCmdCopyImage", srcImage, srcImageLayout, dstImage, dstImageLayout>>

(* nothing recorded, nothing submitted, no image created *)
NoCommands == [recorded |-> <<>>, pending |-> <<>>,
               layout |-> [image \in Images |-> VK_IMAGE_LAYOUT_UNDEFINED], copies |-> {}]

(* the image behind attachment a of the pass is moved to the layout to *)
AttachmentLayouts(layout, to) ==
  [image \in Images |->
     IF \E a \in 1 .. Len(attachments) : attachments[a].image = image
     THEN to[CHOOSE a \in 1 .. Len(attachments) : attachments[a].image = image]
     ELSE layout[image]]

(* the queue executes one command *)
ExecuteCommand(g, c) ==
  CASE c[1] = "vkCmdBeginRenderPass" ->
         [g EXCEPT !.layout = AttachmentLayouts(@, [a \in 1 .. Len(attachments) |->
                                                      attachments[a].layout])]
    [] c[1] = "vkCmdEndRenderPass" ->
         [g EXCEPT !.layout = AttachmentLayouts(@, [a \in 1 .. Len(attachments) |->
                                                      attachments[a].finalLayout])]
    [] c[1] = "vkCmdPipelineBarrier" ->
         [g EXCEPT !.layout[c[2]] = c[4]]
    [] OTHER ->
         \* vkCmdCopyImage: the layouts it is told and the layouts it finds
         [g EXCEPT !.copies = @ \cup {[srcImage |-> c[2], srcImageLayout |-> c[3],
                                       srcLayout |-> g.layout[c[2]],
                                       dstImage |-> c[4], dstImageLayout |-> c[5],
                                       dstLayout |-> g.layout[c[4]]]}]

(* the queue executes the commands of a submission in their order *)
RECURSIVE ExecuteCommands(_, _)
ExecuteCommands(g, cmds) ==
  IF cmds = <<>> THEN g
  ELSE CHOOSE r \in {ExecuteCommands(b, Tail(cmds)) : b \in {ExecuteCommand(g, Head(cmds))}} :
         TRUE

----------------------------------------------------------------------------

(* headless.ppm before dumpImage opens it *)
NoFile == [opens |-> 0, bytes |-> <<>>, closed |-> FALSE]

(* main has not begun *)
NotStarted == pc = 0 /\ loader = 0 /\ file = NoFile /\ trace = <<>> /\ gpu = NoCommands

Init ==
  /\ phase = "constructed"
  /\ m_pRender = [s \in Slots |-> "null"]
  /\ m_rndMethod = eNone
  /\ m_rtxState = [frame |-> 0]
  /\ m_renderRegion = [x |-> 0, y |-> 0, width |-> 0, height |-> 0]
  /\ host = "idle"
  /\ inFlight = 0
  /\ idleWaited = FALSE
  /\ fences = 0
  /\ destroyLog = {}
  /\ lastCall = NoCall
  /\ env = DefaultEnv
  /\ app = Constructed([x \in Uninitialized |-> VK_NULL_HANDLE])
  /\ objs = <<>>
  /\ faults = {}
  /\ ncalls = 0
  /\ NotStarted

(* SampleExample::setup: "new RtxPipeline", "new RayQuery", r->setup(...) *)
Setup ==
  /\ phase = "constructed"
  /\ phase' = "ready"
  /\ m_pRender' = [s \in Slots |-> "setup"]
  /\ lastCall' = Call("setup", 0, <<>>, TRUE)
  /\ UNCHANGED <<m_rndMethod, m_rtxState, m_renderRegion, host, inFlight, idleWaited,
                 fences, destroyLog>>
  /\ UNCHANGED <<appVars, mainVars>>

CreateRender(method) ==
  /\ phase = "ready" /\ host = "idle"
  /\ LET r == createRender(m_rndMethod, method)
         d == Exec(Device, r.calls, "createRender")
     IN  /\ SetDevice(d)
         /\ m_rndMethod' = r.m_rndMethod
         /\ lastCall' = Call("createRender", method, r.calls, ~d.crashed)
  /\ UNCHANGED <<m_renderRegion, host, fences>>
  /\ UNCHANGED <<appVars, mainVars>>

ResetFrame ==
  /\ phase = "ready" /\ host = "idle"
  /\ SetDevice(Exec(Device, <<ResetFrameCall>>, "resetFrame"))
  /\ lastCall' = Call("resetFrame", 0, <<ResetFrameCall>>, TRUE)
  /\ UNCHANGED <<m_rndMethod, m_renderRegion, host, fences>>
  /\ UNCHANGED <<appVars, mainVars>>

SetRenderRegion(size) ==
  /\ phase = "ready" /\ host = "idle"
  /\ LET r == setRenderRegion(m_renderRegion, size)
     IN  /\ SetDevice(Exec(Device, r.calls, "setRenderRegion"))
         /\ m_renderRegion' = r.m_renderRegion
         /\ lastCall' = Call("setRenderRegion", size, r.calls, TRUE)
  /\ UNCHANGED <<m_rndMethod, host, fences>>
  /\ UNCHANGED <<appVars, mainVars>>

(* HeadlessAppVK::submitWork up to vkWaitForFences: vkCreateFence, vkQueueSubmit *)
SubmitWorkBegin ==
  /\ phase = "ready" /\ host = "idle"
  /\ fences' = fences + 1
  /\ inFlight' = inFlight + 1
  /\ idleWaited' = FALSE
  /\ host' = "waitFence"
  /\ lastCall' = Call("submitWork", 0, <<<<"vkCreateFence">>, <<"vkQueueSubmit", "fence">>>>, FALSE)
  /\ UNCHANGED <<phase, m_pRender, m_rndMethod, m_rtxState, m_renderRegion, destroyLog>>
  /\ UNCHANGED <<appVars, mainVars>>

(* the queue finishes the submitted command buffer and signals its fence *)
GpuComplete ==
  /\ inFlight > 0
  /\ inFlight' = inFlight - 1
  /\ gpu' = ExecuteCommands([gpu EXCEPT !.pending = <<>>], gpu.pending)
  /\ UNCHANGED <<phase, m_pRender, m_rndMethod, m_rtxState, m_renderRegion, host,
                 idleWaited, fences, destroyLog, lastCall>>
  /\ UNCHANGED <<appVars, pc, loader, file, trace>>

(* a submitWork whose vkWaitForFences returns at once (a zero timeout) *)
SubmitWorkEnd_noWait ==
  /\ host = "waitFence"
  /\ fences' = fences - 1
  /\ host' = "idle"
  /\ lastCall' = [lastCall EXCEPT !.returned = TRUE,
                                  !.calls = @ \o <<<<"vkWaitForFences", 0>>,
                                                   <<"vkDestroyFence">>>>]
  /\ UNCHANGED <<phase, m_pRender, m_rndMethod, m_rtxState, m_renderRegion, inFlight,
                 idleWaited, destroyLog>>
  /\ UNCHANGED <<appVars, mainVars>>

(* a submitWork that returns without destroying its fence *)
SubmitWorkEnd_keepsFence ==
  /\ host = "waitFence"
  /\ inFlight = 0
  /\ host' = "idle"
  /\ lastCall' = [lastCall EXCEPT !.returned = TRUE,
                                  !.calls = @ \o <<<<"vkWaitForFences", "UINT64_MAX">>>>]
  /\ UNCHANGED <<phase, m_pRender, m_rndMethod, m_rtxState, m_renderRegion, inFlight,
                 idleWaited, fences, destroyLog>>
  /\ UNCHANGED <<appVars, mainVars>>

(* HeadlessAppVK::submitWork: vkWaitForFences returns, vkDestroyFence *)
SubmitWorkEnd ==
  /\ host = "waitFence"
  /\ inFlight = 0
  /\ fences' = fences - 1
  /\ host' = "idle"
  /\ lastCall' = [lastCall EXCEPT !.returned = TRUE,
                                  !.calls = @ \o <<<<"vkWaitForFences", "UINT64_MAX">>,
                                                   <<"vkDestroyFence">>>>]
  /\ UNCHANGED <<phase, m_pRender, m_rndMethod, m_rtxState, m_renderRegion, inFlight,
                 idleWaited, destroyLog>>
  /\ UNCHANGED <<appVars, mainVars>>

(* the transient command buffers a caller may hold at once *)
MaxTempBuffers == 1

(* the command buffers createTempCmdBuffer returned that are not submitted *)
TempBuffers ==
  {h \in 1 .. Len(objs) : /\ objs[h].alive /\ objs[h].member = "cmdBuffer"
                           /\ objs[h].info[2] = "recording"}

(* HeadlessAppVK::createTempCmdBuffer: vkAllocateCommandBuffers,            *)
(* vkBeginCommandBuffer; the handle is returned to the caller               *)
CreateTempCmdBuffer ==
  /\ phase = "ready" /\ host = "idle"
  /\ Len(objs) < MaxTempBuffers
  /\ objs' = Append(objs, [kind |-> "commandBuffer", alive |-> TRUE, member |-> "cmdBuffer",
                           info |-> <<"m_cmdPool", "recording">>, refs |-> {}])
  /\ lastCall' = Call("createTempCmdBuffer", Len(objs) + 1,
                      <<<<"vkAllocateCommandBuffers", Len(objs) + 1>>,
                        <<"vkBeginCommandBuffer", Len(objs) + 1>>>>, TRUE)
  /\ UNCHANGED <<phase, renderVars, env, app, faults, ncalls, mainVars>>

(* HeadlessAppVK::submitTempCmdBuffer up to vkQueueWaitIdle:                *)
(* vkEndCommandBuffer, vkQueueSubmit(m_queue, 1, &submitInfo, {})           *)
SubmitTempCmdBufferBegin(cmdBuffer) ==
  /\ phase = "ready" /\ host = "idle"
  /\ inFlight' = inFlight + 1
  /\ idleWaited' = FALSE
  /\ host' = "waitQueue"
  /\ objs' = [objs EXCEPT ![cmdBuffer].info[2] = "pending"]
  /\ lastCall' = Call("submitTempCmdBuffer", cmdBuffer,
                      <<<<"vkEndCommandBuffer", cmdBuffer>>,
                        <<"vkQueueSubmit", cmdBuffer, VK_NULL_HANDLE>>>>, FALSE)
  /\ UNCHANGED <<phase, m_pRender, m_rndMethod, m_rtxState, m_renderRegion, fences,
                 destroyLog>>
  /\ UNCHANGED <<env, app, faults, ncalls, mainVars>>

(* a submitTempCmdBuffer that does not free the buffer *)
SubmitTempCmdBufferEnd_noFree ==
  /\ host = "waitQueue"
  /\ inFlight = 0
  /\ host' = "idle"
  /\ lastCall' = [lastCall EXCEPT !.returned = TRUE,
                                  !.calls = @ \o <<<<"vkQueueWaitIdle">>>>]
  /\ objs' = [objs EXCEPT ![lastCall.arg].info[2] = "executable"]
  /\ UNCHANGED <<phase, m_pRender, m_rndMethod, m_rtxState, m_renderRegion, inFlight,
                 idleWaited, fences, destroyLog>>
  /\ UNCHANGED <<env, app, faults, ncalls, mainVars>>

(* HeadlessAppVK::submitTempCmdBuffer: vkQueueWaitIdle(m_queue) returns,    *)
(* vkFreeCommandBuffers                                                     *)
SubmitTempCmdBufferEnd ==
  /\ host = "waitQueue"
  /\ inFlight = 0
  /\ host' = "idle"
  /\ lastCall' = [lastCall EXCEPT !.returned = TRUE,
                                  !.calls = @ \o <<<<"vkQueueWaitIdle">>,
                                                   <<"vkFreeCommandBuffers", lastCall.arg>>>>]
  /\ objs' = [objs EXCEPT ![lastCall.arg].alive = FALSE]
  /\ UNCHANGED <<phase, m_pRender, m_rndMethod, m_rtxState, m_renderRegion, inFlight,
                 idleWaited, fences, destroyLog>>
  /\ UNCHANGED <<env, app, faults, ncalls, mainVars>>


(* the values m_maxFrames, a public member, has when renderScene is called: *)
(* its default, or a limit the frame counter has reached                    *)
FrameLimits == {0, m_maxFrames}

(* SampleExample::renderScene *)
RenderScene(maxFrames) ==
  /\ phase = "ready" /\ host = "idle"
  /\ LET r == renderScene(m_rtxState, m_rndMethod, maxFrames)
         d == Exec([Device EXCEPT !.m_rtxState = r.m_rtxState], r.calls, "renderScene")
     IN  /\ SetDevice(d)
         /\ lastCall' = Call("renderScene", maxFrames, r.calls, ~d.crashed)
  /\ UNCHANGED <<m_rndMethod, m_renderRegion, host, fences>>
  /\ UNCHANGED <<appVars, mainVars>>

(* main: vkDeviceWaitIdle(sample.getDevice()); sample.destroyResources();   *)
(* sample.destroy() (which starts with its own vkDeviceWaitIdle)            *)
Teardown ==
  /\ phase = "ready" /\ host = "idle"
  /\ LET calls == <<WaitIdle>> \o destroyResources \o <<WaitIdle>>
         d == Exec(Device, calls, "destroyResources")
     IN  /\ m_pRender' = d.m_pRender
         /\ m_rtxState' = d.m_rtxState
         /\ inFlight' = d.inFlight
         /\ idleWaited' = d.idleWaited
         /\ destroyLog' = d.destroyLog
         /\ lastCall' = Call("destroyResources", 0, calls, TRUE)
  /\ phase' = "torn"
  /\ UNCHANGED <<m_rndMethod, m_renderRegion, host, fences>>
  /\ UNCHANGED <<appVars, mainVars>>

Next ==
  \/ Setup
  \/ \E method \in RndMethod : CreateRender(method)
  \/ ResetFrame
  \/ \E size \in Regions : SetRenderRegion(size)
  \/ SubmitWorkBegin
  \/ GpuComplete
  \/ SubmitWorkEnd
  \/ CreateTempCmdBuffer
  \/ \E cmdBuffer \in TempBuffers : SubmitTempCmdBufferBegin(cmdBuffer)
  \/ SubmitTempCmdBufferEnd
  \/ \E maxFrames \in FrameLimits : RenderScene(maxFrames)
  \/ Teardown

Spec == Init /\ [][Next]_vars

----------------------------------------------------------------------------
(* SpecApp: one HeadlessAppVK object and the calls made on it               *)

(* the number of member function calls followed after setup *)
MaxCalls == 4

InitApp ==
  /\ phase = "constructed"
  /\ \/ /\ env \in ProbeEnvs
        /\ app = Constructed([x \in Uninitialized |-> VK_NULL_HANDLE])
     \/ /\ env \in ResourceEnvs
        /\ \E u \in [Uninitialized -> {VK_NULL_HANDLE, Garbage}] :
             \E dynamic \in BOOLEAN :
               \* m_useDynamicRendering is a protected member: a derived class
               \* configures it before the create... functions run
               app = [Constructed(u) EXCEPT !.m_useDynamicRendering = dynamic]
  /\ objs = <<>>
  /\ faults = {}
  /\ ncalls = 0
  /\ lastCall = NoAppCall
  /\ m_pRender = [s \in Slots |-> "null"]
  /\ m_rndMethod = eNone
  /\ m_rtxState = [frame |-> 0]
  /\ m_renderRegion = [x |-> 0, y |-> 0, width |-> 0, height |-> 0]
  /\ host = "idle"
  /\ inFlight = 0
  /\ idleWaited = FALSE
  /\ fences = 0
  /\ destroyLog = {}
  /\ NotStarted

(* a member function runs its statements on the device *)
Member(op, stmts) ==
  LET a == Run([m |-> app, objs |-> objs, faults |-> faults, log |-> <<>>, status |-> "ok"],
               stmts)
  IN  /\ app' = a.m
      /\ objs' = a.objs
      /\ faults' = a.faults
      /\ lastCall' = AppCall(op, a)
      /\ phase' = IF a.status = "ok" THEN "ready" ELSE a.status
      /\ UNCHANGED <<env, renderVars, mainVars>>

AppSetup ==
  /\ phase = "constructed"
  /\ Member("setup", setup(app, env.depthFormat))
  /\ UNCHANGED ncalls

Called(op, stmts) ==
  /\ phase = "ready"
  /\ ncalls < MaxCalls
  /\ ncalls' = ncalls + 1
  /\ Member(op, stmts)

CreateColorBuffer == Called("createColorBuffer", createColorBuffer(app))
CreateDepthBuffer == Called("createDepthBuffer", createDepthBuffer(app))
CreateRenderPass == Called("createRenderPass", createRenderPass(app))
CreateFrameBuffer == Called("createFrameBuffer", createFrameBuffer(app))
CreateCommandBuffer == Called("createCommandBuffer", createCommandBuffer(app))
AppDestroy == Called("destroy", destroy(app))

NextApp ==
  \/ AppSetup
  \/ CreateColorBuffer
  \/ CreateDepthBuffer
  \/ CreateRenderPass
  \/ CreateFrameBuffer
  \/ CreateCommandBuffer
  \/ AppDestroy

SpecApp == InitApp /\ [][NextApp]_vars

----------------------------------------------------------------------------
(* SpecMem: HeadlessAppVK::getMemoryType on every memory-type table,        *)
(* requirement mask and property mask up to a size                          *)

(* memoryProperties.memoryTypeCount is at most this *)
MaxMemoryTypes == 3

MemoryFlags == {"DEVICE_LOCAL", "HOST_VISIBLE"}

RECURSIVE MemoryTables(_)
MemoryTables(n) ==
  IF n = 0 THEN {<<>>}
  ELSE MemoryTables(n - 1)
       \cup {Append(t, flags) : t \in {u \in MemoryTables(n - 1) : Len(u) = n - 1},
                                flags \in SUBSET MemoryFlags}

(* typeBits may have bits set beyond the table *)
MemEnvs ==
  { [formatProps |-> AllDepthFormats, memoryTypes |-> t, memoryTypeBits |-> bits,
     asserts |-> as, depthFormat |-> VK_FORMAT_UNDEFINED, properties |-> properties] :
      t \in MemoryTables(MaxMemoryTypes), bits \in SUBSET (0 .. MaxMemoryTypes),
      as \in BOOLEAN, properties \in SUBSET MemoryFlags }

InitMem ==
  /\ phase = "constructed"
  /\ env \in MemEnvs
  /\ app = Constructed([x \in Uninitialized |-> VK_NULL_HANDLE])
  /\ objs = <<>>
  /\ faults = {}
  /\ ncalls = 0
  /\ lastCall = NoAppCall
  /\ m_pRender = [s \in Slots |-> "null"]
  /\ m_rndMethod = eNone
  /\ m_rtxState = [frame |-> 0]
  /\ m_renderRegion = [x |-> 0, y |-> 0, width |-> 0, height |-> 0]
  /\ host = "idle"
  /\ inFlight = 0
  /\ idleWaited = FALSE
  /\ fences = 0
  /\ destroyLog = {}
  /\ NotStarted

(* getMemoryType(typeBits, properties): the index it returns, or the        *)
(* assert(0) that ends the process, or ~0u when assert is compiled out      *)
GetMemoryType ==
  /\ phase = "constructed"
  /\ LET index == getMemoryType(env.memoryTypeBits, env.properties)
     IN  /\ lastCall' = [op |-> "getMemoryType", result |-> index,
                         returned |-> index /= NoMemoryType \/ ~env.asserts]
         /\ phase' = IF index /= NoMemoryType \/ ~env.asserts THEN "ready" ELSE "aborted"
  /\ UNCHANGED <<renderVars, appVars, mainVars>>

NextMem == GetMemoryType

SpecMem == InitMem /\ [][NextMem]_vars

----------------------------------------------------------------------------
(* SpecDump: SampleExample::dumpImage from the mapped destination image to  *)
(* the bytes of headless.ppm                                                *)

VK_FORMAT_R8G8B8A8_UNORM == 37

(* the largest width and height of the small images captured *)
MaxWidth == 2
MaxHeight == 2

(* A byte is what it stands for: a character of the header, a component of  *)
(* pixel (x, y) of the color target, or a byte no pixel was copied to.      *)
Char(c) == [kind |-> "text", x |-> 0, y |-> 0, c |-> c]
Component(x, y, c) == [kind |-> "pixel", x |-> x, y |-> y, c |-> c]
Padding == [kind |-> "padding", x |-> 0, y |-> 0, c |-> ""]

(* the order of the components in the four bytes of a pixel of the format *)
ComponentOrder(format) ==
  IF format = VK_FORMAT_B8G8R8A8_UNORM THEN <<"B", "G", "R", "A">>
  ELSE <<"R", "G", "B", "A">>

(* vkCmdCopyImage(m_colorImage -> dstImage) copies the texels bit for bit   *)
(* (both formats are 32 bits wide), so after the copy the byte at addr of   *)
(* the mapped linear image is byte (addr - offset - y*rowPitch) % 4 of the  *)
(* color target's pixel, in the color format's component order.             *)
MappedByte(img, addr) ==
  LET rel == addr - img.offset
      y == rel \div img.rowPitch
      inRow == rel % img.rowPitch
  IN  IF rel >= 0 /\ y < img.height /\ inRow < 4 * img.width
      THEN Component(inRow \div 4, y, ComponentOrder(img.colorFormat)[(inRow % 4) + 1])
      ELSE Padding

(* operator<< of an unsigned value: its decimal digits *)
Digit(d) == <<"0", "1", "2", "3", "4", "5", "6", "7", "8", "9">>[d + 1]

RECURSIVE Decimal(_)
Decimal(n) == IF n < 10 THEN <<Digit(n)>> ELSE Decimal(n \div 10) \o <<Digit(n % 10)>>

(* what the stream holds after "file << ..." of the characters chars *)
Text(chars) == [i \in 1 .. Len(chars) |-> [src |-> -1, byte |-> Char(chars[i])]]

(* file.write(p, n): n bytes read from address p on *)
FileWrite(img, p, n) == [i \in 1 .. n |-> [src |-> p + i - 1, byte |-> MappedByte(img, p + i - 1)]]

(* "P6\n" << m_size.width << "\n" << m_size.height << "\n" << 255 << "\n" *)
PpmHeader(img) ==
  Text(<<"P", "6", "\n">>) \o Text(Decimal(img.width)) \o Text(<<"\n">>)
  \o Text(Decimal(img.height)) \o Text(<<"\n">>) \o Text(Decimal(255)) \o Text(<<"\n">>)

(* line 467 computes colorSwizzle, line 468 overwrites it with true *)
colorSwizzle == TRUE

(* the inner loop of dumpImage: "for(x = 0; x < m_size.width; x++)", row    *)
(* being the address of the pixel                                           *)
RECURSIVE WritePixels(_, _, _, _)
WritePixels(img, x, row, out) ==
  IF x >= img.width THEN out
  ELSE WritePixels(img, x + 1, row + 4,
                   IF colorSwizzle
                   THEN out \o FileWrite(img, row + 2, 1) \o FileWrite(img, row + 1, 1)
                            \o FileWrite(img, row, 1)
                   ELSE out \o FileWrite(img, row, 3))

(* an outer loop that advances by the width of a row instead of its pitch *)
RECURSIVE WriteRows_tight(_, _, _, _)
WriteRows_tight(img, y, imagedata, out) ==
  IF y >= img.height THEN out
  ELSE WriteRows_tight(img, y + 1, imagedata + 4 * img.width,
                       WritePixels(img, 0, imagedata, out))

(* the outer loop of dumpImage: "for(y = 0; y < m_size.height; y++)" with   *)
(* "imagedata += subResourceLayout.rowPitch"                                *)
RECURSIVE WriteRows(_, _, _, _)
WriteRows(img, y, imagedata, out) ==
  IF y >= img.height THEN out
  ELSE WriteRows(img, y + 1, imagedata + img.rowPitch, WritePixels(img, 0, imagedata, out))

(* SampleExample::dumpImage from vkMapMemory on: the file it leaves.        *)
(* std::ios::out truncates the file when it opens it.                       *)
dumpImage(f, img) ==
  [opens |-> f.opens + 1,
   bytes |-> WriteRows(img, 0, img.offset, PpmHeader(img)),
   closed |-> TRUE]

(* the images captured: m_size, the layout vkGetImageSubresourceLayout      *)
(* reports for the linear image and the color format given to setup; 12 is  *)
(* a width of two decimal digits                                            *)
DumpEnvs ==
  { [width |-> w, height |-> h, rowPitch |-> 4 * w + pad, offset |-> off, colorFormat |-> cf] :
      w \in (0 .. MaxWidth) \cup {12}, h \in 0 .. MaxHeight, pad \in {0, 4, 8},
      off \in {0, 16}, cf \in {VK_FORMAT_B8G8R8A8_UNORM, VK_FORMAT_R8G8B8A8_UNORM} }

InitDump ==
  /\ phase = "capture"
  /\ env \in DumpEnvs
  /\ app = Constructed([x \in Uninitialized |-> VK_NULL_HANDLE])
  /\ objs = <<>>
  /\ faults = {}
  /\ ncalls = 0
  /\ lastCall = NoAppCall
  /\ m_pRender = [s \in Slots |-> "null"]
  /\ m_rndMethod = eNone
  /\ m_rtxState = [frame |-> 0]
  /\ m_renderRegion = [x |-> 0, y |-> 0, width |-> 0, height |-> 0]
  /\ host = "idle"
  /\ inFlight = 0
  /\ idleWaited = FALSE
  /\ fences = 0
  /\ destroyLog = {}
  /\ NotStarted

DumpImage ==
  /\ phase = "capture"
  /\ phase' = "captured"
  /\ file' = dumpImage(file, env)
  /\ UNCHANGED <<lastCall, renderVars, appVars, pc, loader, trace, gpu>>

NextDump == DumpImage

SpecDump == InitDump /\ [][NextDump]_vars

----------------------------------------------------------------------------
(* SpecMain: the run of main from sample.setup to its return, with the      *)
(* auxiliary thread, the queue, the device's objects and headless.ppm       *)

(* a statement of a thread: the line it is on, its name, and what kind of   *)
(* step it is                                                               *)
S(line, label, kind, arg) == [line |-> line, label |-> label, kind |-> kind, arg |-> arg]

VK_MEMORY_PROPERTY_HOST_VISIBLE_BIT == {"HOST_VISIBLE"}
VK_MEMORY_PROPERTY_HOST_COHERENT_BIT == {"HOST_COHERENT"}

(* the locals of dumpImage that hold handles *)
DumpLocals == [dstImage |-> VK_NULL_HANDLE, dstImageMemory |-> VK_NULL_HANDLE,
               copyCmd |-> VK_NULL_HANDLE]

(* SampleExample::dumpImage up to the recording of the copy: the linear     *)
(* destination image, its host visible memory, the copy command buffer      *)
dumpImage_allocate(m) ==
  <<VkCreate("vkCreateImage", "dstImage", <<VK_FORMAT_R8G8B8A8_UNORM>>),
    VkAllocateMemory("dstImageMemory", "dstImage",
                     VK_MEMORY_PROPERTY_HOST_VISIBLE_BIT \cup VK_MEMORY_PROPERTY_HOST_COHERENT_BIT),
    VkBindImageMemory("dstImage", "dstImageMemory"),
    VkCreate("vkAllocateCommandBuffers", "copyCmd", <<"m_cmdPool", "initial">>),
    VkBeginCommandBuffer("copyCmd")>>

(* a dumpImage that does not free the memory of the destination image *)
dumpImage_release_keepsMemory(m) ==
  <<VkDestroy("vkDestroyImage", "dstImage"),
    VkDestroy("vkFreeCommandBuffers", "copyCmd")>>

(* SampleExample::dumpImage, "Clear buffers" *)
dumpImage_release(m) ==
  <<VkDestroy("vkDestroyImage", "dstImage"),
    VkDestroy("vkFreeMemory", "dstImageMemory"),
    VkDestroy("vkFreeCommandBuffers", "copyCmd")>>

(* SampleExample::dumpImage as main calls it *)
dumpImageSteps ==
  <<S(374, "dumpImage.allocate", "run", "dumpImage_allocate"),
    S(398, "dumpImage.insertImageMemoryBarrier.dst", "record",
      <<CmdPipelineBarrier("dstImage", VK_IMAGE_LAYOUT_UNDEFINED,
                           VK_IMAGE_LAYOUT_TRANSFER_DST_OPTIMAL)>>),
    S(420, "dumpImage.vkCmdCopyImage", "record",
      <<CmdCopyImage("m_colorImage", VK_IMAGE_LAYOUT_TRANSFER_SRC_OPTIMAL,
                     "dstImage", VK_IMAGE_LAYOUT_TRANSFER_DST_OPTIMAL)>>),
    S(428, "dumpImage.insertImageMemoryBarrier.general", "record",
      <<CmdPipelineBarrier("dstImage", VK_IMAGE_LAYOUT_TRANSFER_DST_OPTIMAL,
                           VK_IMAGE_LAYOUT_GENERAL)>>),
    S(439, "dumpImage.vkEndCommandBuffer", "record", <<>>),
    S(441, "dumpImage.submitWork.vkQueueSubmit", "submit", ""),
    S(441, "dumpImage.submitWork.vkWaitForFences", "waitFence", ""),
    S(461, "dumpImage.write", "write", ""),
    S(491, "dumpImage.release", "run", "dumpImage_release")>>

(* the lambda of the std::thread of main *)
loaderThread ==
  <<S(140, "loadScene", "resetFrame", ""),
    S(141, "createUniformBuffer", "external", ""),
    S(142, "createDescriptorSetLayout", "external", ""),
    S(143, "createRender", "createRender", ""),
    S(144, "resetFrame", "resetFrame", "")>>

(* a main that creates the framebuffer before the render targets and the   *)
(* render pass                                                              *)
mainBeforeThread_framebufferFirst ==
  <<S(130, "setup", "setup", ""),
    S(134, "createFrameBuffer", "run", "createFrameBuffer"),
    S(131, "createColorBuffer", "run", "createColorBuffer"),
    S(132, "createDepthBuffer", "run", "createDepthBuffer"),
    S(133, "createRenderPass", "run", "createRenderPass"),
    S(135, "createOffscreenRender", "external", ""),
    S(138, "loadEnvironmentHdr", "external", ""),
    S(139, "std::thread", "thread", "")>>

(* main up to the start of the auxiliary thread *)
mainBeforeThread ==
  <<S(130, "setup", "setup", ""),
    S(131, "createColorBuffer", "run", "createColorBuffer"),
    S(132, "createDepthBuffer", "run", "createDepthBuffer"),
    S(133, "createRenderPass", "run", "createRenderPass"),
    S(134, "createFrameBuffer", "run", "createFrameBuffer"),
    S(135, "createOffscreenRender", "external", ""),
    S(138, "loadEnvironmentHdr", "external", ""),
    S(139, "std::thread", "thread", "")>>

(* main from the line after the thread's join to the submission *)
mainFrame ==
  <<S(149, "setRenderRegion", "setRenderRegion", ""),
    S(156, "profiler.beginFrame", "external", ""),
    S(159, "createCommandBuffer", "run", "createCommandBuffer"),
    S(162, "updateUniformBuffer", "record", <<>>),
    S(165, "renderScene", "record", <<>>),
    S(182, "vkCmdBeginRenderPass", "record", <<CmdBeginRenderPass>>),
    S(185, "drawPost", "record", <<>>),
    S(187, "vkCmdEndRenderPass", "record", <<CmdEndRenderPass>>),
    S(192, "vkEndCommandBuffer", "record", <<>>),
    S(193, "submitWork.vkQueueSubmit", "submit", ""),
    S(193, "submitWork.vkWaitForFences", "waitFence", "")>>

(* main, "Cleanup" *)
mainCleanup ==
  <<S(199, "vkDeviceWaitIdle", "waitIdle", ""),
    S(200, "destroyResources", "destroyResources", ""),
    S(201, "destroy", "run", "destroy"),
    S(205, "return", "return", "")>>

(* a main that does not wait for the auxiliary thread *)
main_detach ==
  mainBeforeThread \o <<S(145, "detach", "external", "")>> \o mainFrame
  \o <<S(194, "vkDeviceWaitIdle", "waitIdle", "")>> \o dumpImageSteps \o mainCleanup

(* a main without the vkDeviceWaitIdle between submitWork and dumpImage *)
main_noWaitIdle ==
  mainBeforeThread \o <<S(145, "join", "join", "")>> \o mainFrame
  \o dumpImageSteps \o mainCleanup

(* main, from "Create example" on *)
main ==
  mainBeforeThread \o <<S(145, "join", "join", "")>> \o mainFrame
  \o <<S(194, "vkDeviceWaitIdle", "waitIdle", "")>> \o dumpImageSteps \o mainCleanup

(* the statements of the member function a "run" step calls *)
Statements(name, m) ==
  CASE name = "createColorBuffer" -> createColorBuffer(m)
    [] name = "createDepthBuffer" -> createDepthBuffer(m)
    [] name = "createRenderPass" -> createRenderPass(m)
    [] name = "createFrameBuffer" -> createFrameBuffer(m)
    [] name = "createCommandBuffer" -> createCommandBuffer(m)
    [] name = "dumpImage_allocate" -> dumpImage_allocate(m)
    [] name = "dumpImage_release" -> dumpImage_release(m)
    [] OTHER -> destroy(m)

(* a handle that names no object was given to the device, or an image, a    *)
(* view or a render pass was created with VK_FORMAT_UNDEFINED: the          *)
(* behaviour of the device is undefined from here                           *)
InvalidUse(a) ==
  \/ a.faults /= faults
  \/ \E h \in (Len(objs) + 1) .. Len(a.objs) :
       \/ a.objs[h].kind \in {"image", "view"} /\ a.objs[h].info[1] = VK_FORMAT_UNDEFINED
       \/ a.objs[h].kind = "renderPass" /\ a.objs[h].info[2] = VK_FORMAT_UNDEFINED

(* how a step that ran the statements ends: as its status says, and after   *)
(* an invalid use either going on or with the process killed                *)
Outcomes(a) ==
  IF a.status /= "ok" THEN {a.status}
  ELSE IF InvalidUse(a) THEN {"running", "crashed"}
  ELSE {"running"}

RunMain(stmts) ==
  \E a \in {Run([m |-> app, objs |-> objs, faults |-> faults, log |-> <<>>, status |-> "ok"],
                stmts)} :
    /\ app' = a.m
    /\ objs' = a.objs
    /\ faults' = a.faults
    /\ phase' \in Outcomes(a)
    /\ UNCHANGED <<env, ncalls>>

ExecMain(r, by) ==
  /\ \E d \in {Exec(Device, r.calls, by)} : SetDevice(d)
  /\ m_rndMethod' = r.m_rndMethod
  /\ m_renderRegion' = r.m_renderRegion
  /\ UNCHANGED <<host, fences, appVars, file>>

(* one statement of a thread *)
Do(thread, st) ==
  /\ phase = "running"
  /\ trace' = Append(trace, [thread |-> thread, label |-> st.label, line |-> st.line,
                             inFlight |-> inFlight, idleWaited |-> idleWaited,
                             loader |-> loader])
  /\ lastCall' = lastCall
  /\ CASE st.kind = "setup" ->
            \* SampleExample::setup: HeadlessAppVK::setup, the two backends
            /\ RunMain(setup(app, env.depthFormat))
            /\ m_pRender' = [s \in Slots |-> "setup"]
            /\ UNCHANGED <<m_rndMethod, m_rtxState, m_renderRegion, host, inFlight,
                           idleWaited, fences, destroyLog, file>>
       [] st.kind = "run" ->
            /\ RunMain(Statements(st.arg, app))
            /\ UNCHANGED <<renderVars, file>>
       [] st.kind = "resetFrame" ->
            ExecMain([m_rndMethod |-> m_rndMethod, m_renderRegion |-> m_renderRegion,
                      calls |-> <<ResetFrameCall>>], st.label)
       [] st.kind = "createRender" ->
            ExecMain([m_renderRegion |-> m_renderRegion] @@ createRender(m_rndMethod, eRtxPipeline),
                     st.label)
       [] st.kind = "setRenderRegion" ->
            ExecMain([m_rndMethod |-> m_rndMethod]
                     @@ setRenderRegion(m_renderRegion,
                                        [x |-> 0, y |-> 0, width |-> SAMPLE_WIDTH,
                                         height |-> SAMPLE_HEIGHT]), st.label)
       [] st.kind = "destroyResources" ->
            ExecMain([m_rndMethod |-> m_rndMethod, m_renderRegion |-> m_renderRegion,
                      calls |-> destroyResources], st.label)
       [] st.kind = "submit" ->
            \* submitWork: vkCreateFence, vkQueueSubmit
            /\ fences' = fences + 1
            /\ inFlight' = inFlight + 1
            /\ idleWaited' = FALSE
            /\ UNCHANGED <<phase, m_pRender, m_rndMethod, m_rtxState, m_renderRegion, host,
                           destroyLog, appVars, file>>
       [] st.kind = "waitFence" ->
            \* submitWork: vkWaitForFences returns, vkDestroyFence
            /\ inFlight = 0
            /\ fences' = fences - 1
            /\ UNCHANGED <<phase, m_pRender, m_rndMethod, m_rtxState, m_renderRegion, host,
                           inFlight, idleWaited, destroyLog, appVars, file>>
       [] st.kind = "waitIdle" ->
            \* vkDeviceWaitIdle returns
            /\ inFlight = 0
            /\ idleWaited' = TRUE
            /\ UNCHANGED <<phase, m_pRender, m_rndMethod, m_rtxState, m_renderRegion, host,
                           inFlight, fences, destroyLog, appVars, file>>
       [] st.kind = "write" ->
            \* a std::ofstream that could not open the file ignores every write
            /\ file' = IF env.writable THEN dumpImage(file, env) ELSE file
            /\ UNCHANGED <<phase, renderVars, appVars>>
       [] st.kind = "join" ->
            \* the thread has run its last statement
            /\ loader > Len(loaderThread)
            /\ UNCHANGED <<phase, renderVars, appVars, file>>
       [] st.kind = "return" ->
            /\ phase' = "exited"
            /\ UNCHANGED <<renderVars, appVars, file>>
       [] OTHER ->
            \* "external", "record", "thread": nothing of the state above changes
            UNCHANGED <<phase, renderVars, appVars, file>>
  /\ gpu' = CASE st.kind = "record" ->
                  \* the commands go to the command buffer being recorded
                  [gpu EXCEPT !.recorded = @ \o st.arg]
             [] st.kind = "submit" ->
                  \* vkQueueSubmit of the command buffer recorded
                  [gpu EXCEPT !.pending = @ \o gpu.recorded, !.recorded = <<>>]
             [] st.kind = "run" ->
                  \* an image is created in its initialLayout
                  [gpu EXCEPT !.layout =
                     [image \in Images |->
                        IF \E h \in (Len(objs) + 1) .. Len(objs') :
                             objs'[h].kind = "image" /\ objs'[h].member = image
                        THEN VK_IMAGE_LAYOUT_UNDEFINED ELSE gpu.layout[image]]]
             [] OTHER -> gpu

MainStep ==
  /\ pc \in 1 .. Len(main)
  /\ Do("main", main[pc])
  /\ pc' = pc + 1
  /\ loader' = IF main[pc].kind = "thread" THEN 1 ELSE loader

LoaderStep ==
  /\ loader \in 1 .. Len(loaderThread)
  /\ Do("loader", loaderThread[loader])
  /\ loader' = loader + 1
  /\ pc' = pc

(* the devices main may run on: memory types for the render targets and     *)
(* for the host visible capture image                                       *)
MainMemoryDevices ==
  { [memoryTypes |-> <<{"HOST_VISIBLE", "HOST_COHERENT"}, {"DEVICE_LOCAL"}>>,
     memoryTypeBits |-> {0, 1}],
    [memoryTypes |-> <<{"DEVICE_LOCAL"}, {"DEVICE_LOCAL", "HOST_VISIBLE"}>>,
     memoryTypeBits |-> {0, 1}],
    [memoryTypes |-> <<{"HOST_VISIBLE", "HOST_COHERENT"}>>, memoryTypeBits |-> {0}] }

MainEnvs ==
  { [formatProps |-> fp, memoryTypes |-> md.memoryTypes, memoryTypeBits |-> md.memoryTypeBits,
     asserts |-> as, depthFormat |-> VK_FORMAT_UNDEFINED,
     width |-> MaxWidth, height |-> MaxHeight, rowPitch |-> 4 * MaxWidth + 4, offset |-> 0,
     colorFormat |-> VK_FORMAT_B8G8R8A8_UNORM, writable |-> TRUE] :
      fp \in {AllDepthFormats, NoDepthFormats}, md \in MainMemoryDevices, as \in BOOLEAN }

InitMain ==
  /\ phase = "running"
  /\ pc = 1
  /\ loader = 0
  /\ file = NoFile
  /\ trace = <<>>
  /\ gpu = NoCommands
  /\ env \in MainEnvs
  /\ app \in {DumpLocals @@ Constructed(u) : u \in [Uninitialized -> {VK_NULL_HANDLE, Garbage}]}
  /\ objs = <<>>
  /\ faults = {}
  /\ ncalls = 0
  /\ lastCall = NoAppCall
  /\ m_pRender = [s \in Slots |-> "null"]
  /\ m_rndMethod = eNone
  /\ m_rtxState = [frame |-> 0]
  /\ m_renderRegion = [x |-> 0, y |-> 0, width |-> 0, height |-> 0]
  /\ host = "idle"
  /\ inFlight = 0
  /\ idleWaited = FALSE
  /\ fences = 0
  /\ destroyLog = {}

NextMain ==
  \/ MainStep
  \/ LoaderStep
  \/ GpuComplete

SpecMain == InitMain /\ [][NextMain]_vars

(* the threads are scheduled and the queue completes what is submitted *)
SpecMainFair ==
  SpecMain /\ WF_vars(MainStep) /\ WF_vars(LoaderStep) /\ WF_vars(GpuComplete)

----------------------------------------------------------------------------
(* Properties of dumpImage (under SpecDump)                                 *)

(* the header read back: the lines of the text, each ended by "\n" *)
RECURSIVE Lines(_, _, _)
Lines(text, i, line) ==
  IF i > Len(text) THEN (IF line = <<>> THEN <<>> ELSE <<line \o <<"unterminated">>>>)
  ELSE IF text[i] = "\n" THEN <<line>> \o Lines(text, i + 1, <<>>)
  ELSE Lines(text, i + 1, Append(line, text[i]))

DigitValue(c) == CHOOSE d \in 0 .. 9 : Digit(d) = c

RECURSIVE Number(_)
Number(digits) ==
  IF Len(digits) = 1 THEN DigitValue(digits[1])
  ELSE 10 * Number(SubSeq(digits, 1, Len(digits) - 1)) + DigitValue(digits[Len(digits)])

IsNumber(digits) ==
  /\ Len(digits) >= 1
  /\ \A i \in 1 .. Len(digits) : \E d \in 0 .. 9 : Digit(d) = digits[i]
  /\ Len(digits) > 1 => digits[1] /= "0"

TextBytes == {i \in 1 .. Len(file.bytes) : file.bytes[i].byte.kind = "text"}
HeaderText == [i \in 1 .. Cardinality(TextBytes) |-> file.bytes[i].byte.c]
DataBytes == SubSeq(file.bytes, Cardinality(TextBytes) + 1, Len(file.bytes))

(* the data byte written for component k (0, 1, 2) of pixel (x, y) *)
DataByte(x, y, k) == DataBytes[(y * env.width + x) * 3 + k + 1]

Captured == phase = "captured"

(* C11: dumpImage writes the header P6, width, height, 255, each followed   *)
(* by a newline, and then exactly width*height*3 data bytes; the bytes of   *)
(* row y are read from offset + y*rowPitch on and none of them lies in the  *)
(* pitch padding.                                                           *)
C11_HeaderAndRows ==
  Captured =>
    /\ TextBytes = 1 .. Cardinality(TextBytes)
    /\ LET lines == Lines(HeaderText, 1, <<>>)
       IN  /\ Len(lines) = 4
           /\ lines[1] = <<"P", "6">>
           /\ IsNumber(lines[2]) /\ Number(lines[2]) = env.width
           /\ IsNumber(lines[3]) /\ Number(lines[3]) = env.height
           /\ lines[4] = <<"2", "5", "5">>
    /\ Len(DataBytes) = env.width * env.height * 3
    /\ \A y \in 0 .. env.height - 1 : \A x \in 0 .. env.width - 1 : \A k \in 0 .. 2 :
         LET b == DataByte(x, y, k)
             rowStart == env.offset + y * env.rowPitch
         IN  /\ b.src >= rowStart + 4 * x /\ b.src < rowStart + 4 * x + 4
             /\ b.byte.kind = "pixel" /\ b.byte.x = x /\ b.byte.y = y

C11_Witness ==
  /\ Captured
  /\ env.width = 12 /\ env.height = MaxHeight
  /\ env.rowPitch > 4 * env.width /\ env.offset > 0
  /\ Len(DataBytes) = 12 * MaxHeight * 3

(* C12: the three bytes written for pixel (x, y) are its red, green and     *)
(* blue components, in that order, for the default B8G8R8A8 color format    *)
(* and for a caller-supplied R8G8B8A8 format; alpha is never written.       *)
C12_RedGreenBlue ==
  Captured =>
    \A y \in 0 .. env.height - 1 : \A x \in 0 .. env.width - 1 :
      /\ DataByte(x, y, 0).byte = Component(x, y, "R")
      /\ DataByte(x, y, 1).byte = Component(x, y, "G")
      /\ DataByte(x, y, 2).byte = Component(x, y, "B")

(* C22 as stated: a transient submission blocks until completion by means   *)
(* of a dedicated fence: the submission is given a fence, and a fence       *)
(* created for it is alive while submitTempCmdBuffer waits.                 *)
TransientSubmission == lastCall.op = "submitTempCmdBuffer"

C22_DedicatedFence ==
  TransientSubmission =>
    /\ lastCall.calls[2][3] /= VK_NULL_HANDLE
    /\ ~lastCall.returned => fences = 1

(* C22 amended: submitTempCmdBuffer ends the buffer createTempCmdBuffer     *)
(* returned, submits it with no fence, blocks in vkQueueWaitIdle until the  *)
(* queue has completed it and then frees it; no fence exists at any time    *)
(* of the transient submission.                                             *)
C22_TransientSubmission ==
  TransientSubmission =>
    LET h == lastCall.arg
    IN  /\ fences = 0
        /\ lastCall.calls[1] = <<"vkEndCommandBuffer", h>>
        /\ lastCall.calls[2] = <<"vkQueueSubmit", h, VK_NULL_HANDLE>>
        /\ ~lastCall.returned =>
              /\ host = "waitQueue"
              /\ Len(lastCall.calls) = 2
              /\ objs[h].alive /\ objs[h].info[2] = "pending"
        /\ lastCall.returned =>
              /\ host = "idle" /\ inFlight = 0
              /\ Len(lastCall.calls) = 4
              /\ lastCall.calls[3] = <<"vkQueueWaitIdle">>
              /\ lastCall.calls[4] = <<"vkFreeCommandBuffers", h>>
              /\ ~objs[h].alive

C22_Witness ==
  /\ TransientSubmission /\ lastCall.returned
  /\ Len(objs) = MaxTempBuffers
  /\ \A h \in 1 .. Len(objs) : ~objs[h].alive

(* C23: submitWork creates a fence, submits exactly one command buffer      *)
(* with it, waits on the fence without timeout and destroys the fence       *)
(* before it returns: no fence is alive outside a submitWork call.          *)
C23_FenceCreatedWaitedDestroyed ==
  /\ host = "waitFence" =>
       /\ lastCall.op = "submitWork" /\ ~lastCall.returned
       /\ fences = 1 /\ inFlight <= 1
       /\ lastCall.calls = <<<<"vkCreateFence">>, <<"vkQueueSubmit", "fence">>>>
  /\ host /= "waitFence" => fences = 0
  /\ lastCall.op = "submitWork" /\ lastCall.returned =>
       /\ fences = 0 /\ inFlight = 0
       /\ lastCall.calls = <<<<"vkCreateFence">>, <<"vkQueueSubmit", "fence">>,
                             <<"vkWaitForFences", "UINT64_MAX">>, <<"vkDestroyFence">>>>

C23_Witness ==
  /\ lastCall.op = "submitWork" /\ lastCall.returned
  /\ fences = 0
  /\ m_pRender[eRayQuery] = "created"
  /\ Len(objs) = 1

----------------------------------------------------------------------------
(* Properties of getMemoryType (under SpecMem)                              *)

(* C29: getMemoryType returns the lowest index whose bit is set in the      *)
(* requirement mask and whose property flags contain every requested flag,  *)
(* whenever there is such an index.                                         *)
MatchingTypes ==
  {i \in 0 .. Len(env.memoryTypes) - 1 :
     i \in env.memoryTypeBits /\ env.properties \subseteq env.memoryTypes[i + 1]}

C29_LowestMatchingIndex ==
  lastCall.op = "getMemoryType" /\ MatchingTypes /= {} =>
    /\ lastCall.returned
    /\ lastCall.result \in MatchingTypes
    /\ \A j \in MatchingTypes : lastCall.result <= j

C29_Witness ==
  /\ lastCall.op = "getMemoryType"
  /\ MatchingTypes = {1, 2}
  /\ 0 \in env.memoryTypeBits
  /\ env.memoryTypes[1] /= {}
  /\ env.properties = MemoryFlags
  /\ lastCall.result = 1

----------------------------------------------------------------------------
(* Properties of setup and of the render targets (under SpecApp)            *)

SetupDone == phase /= "constructed"
NoDepthFormatGiven == env.depthFormat = VK_FORMAT_UNDEFINED
Qualifies(f) == "DEPTH_STENCIL_ATTACHMENT" \in env.formatProps[f]

(* C5: setup called with no depth format chooses the first candidate, in    *)
(* the order D24_UNORM_S8, D32_SFLOAT_S8, D16_UNORM_S8, whose optimal       *)
(* tiling features contain the depth/stencil attachment bit.                *)
C5_FirstQualifyingFormat ==
  SetupDone /\ NoDepthFormatGiven =>
    /\ Qualifies(VK_FORMAT_D24_UNORM_S8_UINT) =>
         app.m_depthFormat = VK_FORMAT_D24_UNORM_S8_UINT
    /\ ~Qualifies(VK_FORMAT_D24_UNORM_S8_UINT) /\ Qualifies(VK_FORMAT_D32_SFLOAT_S8_UINT) =>
         app.m_depthFormat = VK_FORMAT_D32_SFLOAT_S8_UINT
    /\ ( /\ ~Qualifies(VK_FORMAT_D24_UNORM_S8_UINT)
         /\ ~Qualifies(VK_FORMAT_D32_SFLOAT_S8_UINT)
         /\ Qualifies(VK_FORMAT_D16_UNORM_S8_UINT) ) =>
         app.m_depthFormat = VK_FORMAT_D16_UNORM_S8_UINT

C5_Witness ==
  /\ SetupDone /\ NoDepthFormatGiven
  /\ ~Qualifies(VK_FORMAT_D24_UNORM_S8_UINT)
  /\ Qualifies(VK_FORMAT_D32_SFLOAT_S8_UINT)
  /\ Qualifies(VK_FORMAT_D16_UNORM_S8_UINT)
  /\ app.m_depthFormat = VK_FORMAT_D32_SFLOAT_S8_UINT

(* C6: when setup is called with no depth format and no candidate           *)
(* qualifies, setup ends in a fatal error, and neither a depth image nor a  *)
(* render pass is created with an undefined depth format.                   *)
NoneQualifies == \A i \in 1 .. Len(DepthCandidates) : ~Qualifies(DepthCandidates[i])

UsesFormat(h, f) ==
  \/ objs[h].kind = "image" /\ objs[h].member = "m_depthImage" /\ objs[h].info[1] = f
  \/ objs[h].kind = "renderPass" /\ objs[h].info[2] = f

C6_NoDepthFormatIsFatal ==
  /\ SetupDone /\ NoDepthFormatGiven /\ NoneQualifies => phase = "aborted"
  /\ \A h \in 1 .. Len(objs) : ~UsesFormat(h, VK_FORMAT_UNDEFINED)

(* C7: after N >= 1 consecutive createColorBuffer calls (likewise           *)
(* createDepthBuffer calls) exactly one image, one memory allocation and    *)
(* one view of that target are alive, and they are the ones the members     *)
(* hold.                                                                    *)
LiveOf(member) == {h \in 1 .. Len(objs) : objs[h].alive /\ objs[h].member = member}

ExactlyOne(member) == LiveOf(member) = {app[member]}

C7_OneTripleAlive ==
  /\ lastCall.op = "createColorBuffer" /\ lastCall.returned =>
       ExactlyOne("m_colorImage") /\ ExactlyOne("m_colorMemory") /\ ExactlyOne("m_colorView")
  /\ lastCall.op = "createDepthBuffer" /\ lastCall.returned =>
       ExactlyOne("m_depthImage") /\ ExactlyOne("m_depthMemory") /\ ExactlyOne("m_depthView")

C7_Witness ==
  /\ lastCall.op = "createColorBuffer" /\ lastCall.returned
  /\ lastCall.run = 3
  /\ Cardinality({h \in 1 .. Len(objs) : objs[h].member = "m_colorMemory"}) = 3

(* C8: whenever no createColorBuffer or createDepthBuffer is in progress,   *)
(* the image, memory and view handles of a render target are all null or    *)
(* all live; all three are live after either call returns.                  *)
AllNull(ms) == \A x \in ms : app[x] = VK_NULL_HANDLE
AllLive(ms) == \A x \in ms : IsLive(objs, app[x])

ColorTarget == {"m_colorImage", "m_colorMemory", "m_colorView"}
DepthTarget == {"m_depthImage", "m_depthMemory", "m_depthView"}

C8_AllNullOrAllLive ==
  phase \in {"constructed", "ready"} =>
    /\ AllNull(ColorTarget) \/ AllLive(ColorTarget)
    /\ AllNull(DepthTarget) \/ AllLive(DepthTarget)
    /\ lastCall.op = "createColorBuffer" => AllLive(ColorTarget)
    /\ lastCall.op = "createDepthBuffer" => AllLive(DepthTarget)

(* C16: when no memory type matches, getMemoryType aborts instead of        *)
(* returning, so no vkAllocateMemory is given an invalid memory type index. *)
C16_NoInvalidMemoryType ==
  /\ phase /= "invalid"
  /\ \A f \in faults : f.why /= "memoryTypeIndex"

(* C17 as stated: after any sequence of createColorBuffer,                  *)
(* createDepthBuffer, createRenderPass and createFrameBuffer calls a live   *)
(* framebuffer references only the live color view, depth view and render   *)
(* pass the members hold.                                                   *)
Framebuffers == {h \in 1 .. Len(objs) : objs[h].kind = "framebuffer" /\ objs[h].alive}

FramebufferParts == {"m_colorView", "m_depthView", "m_renderPass"}

C17_FramebufferRefersToLive ==
  \A h \in Framebuffers :
    /\ objs[h].refs = {app[x] : x \in FramebufferParts}
    /\ \A r \in objs[h].refs : IsLive(objs, r)

(* C17 amended: createFrameBuffer, called while the color view, the depth   *)
(* view and the render pass are live, leaves m_framebuffer a live           *)
(* framebuffer that references exactly these three, and the framebuffer     *)
(* the member held before is no longer alive.                               *)
C17_FramebufferBuiltFromCurrent ==
  /\ lastCall.op = "createFrameBuffer" /\ lastCall.returned
  /\ ~lastCall.pre.m_useDynamicRendering
  /\ \A x \in FramebufferParts : IsLive(objs, lastCall.pre[x])
  => /\ IsLive(objs, app.m_framebuffer)
     /\ objs[app.m_framebuffer].kind = "framebuffer"
     /\ objs[app.m_framebuffer].refs = {app[x] : x \in FramebufferParts}
     /\ \A x \in FramebufferParts : app[x] = lastCall.pre[x] /\ IsLive(objs, app[x])
     /\ ~IsLive(objs, lastCall.pre.m_framebuffer)

C17_Witness ==
  /\ lastCall.op = "createFrameBuffer" /\ lastCall.returned
  /\ \A x \in FramebufferParts : IsLive(objs, lastCall.pre[x])
  /\ IsLive(objs, app.m_framebuffer)
  /\ Cardinality(objs[app.m_framebuffer].refs) = 3

(* C18: with dynamic rendering configured, createRenderPass and             *)
(* createFrameBuffer create nothing, destroy nothing and leave every        *)
(* handle as it was; createColorBuffer and createDepthBuffer do what they   *)
(* do in the normal mode.                                                   *)
Normal(m) == [m EXCEPT !.m_useDynamicRendering = FALSE]

C18_DynamicRenderingNoOps ==
  /\ lastCall.op \in {"createRenderPass", "createFrameBuffer"}
       /\ lastCall.pre.m_useDynamicRendering =>
         /\ lastCall.log = <<>>
         /\ app = lastCall.pre
         /\ lastCall.returned
  /\ app.m_useDynamicRendering =>
         /\ createColorBuffer(app) = createColorBuffer(Normal(app))
         /\ createDepthBuffer(app) = createDepthBuffer(Normal(app))
         /\ \A h \in 1 .. Len(objs) : objs[h].kind \notin {"renderPass", "framebuffer"}
  /\ lastCall.op = "createColorBuffer" /\ lastCall.returned /\ app.m_useDynamicRendering =>
         ExactlyOne("m_colorImage") /\ ExactlyOne("m_colorMemory") /\ ExactlyOne("m_colorView")
  /\ lastCall.op = "createDepthBuffer" /\ lastCall.returned /\ app.m_useDynamicRendering =>
         ExactlyOne("m_depthImage") /\ ExactlyOne("m_depthMemory") /\ ExactlyOne("m_depthView")

C18_Witness ==
  /\ lastCall.op = "createFrameBuffer" /\ lastCall.pre.m_useDynamicRendering
  /\ app.m_framebuffer = Garbage
  /\ IsLive(objs, app.m_colorView) /\ IsLive(objs, app.m_depthView)

(* where a call's log holds the device function applied to the member *)
LogIndex(log, fn, member) ==
  {i \in 1 .. Len(log) : log[i][1] = fn /\ log[i][2] = member}

(* C26: no destroy or free call of createColorBuffer, createDepthBuffer,    *)
(* createRenderPass, createFrameBuffer, createCommandBuffer or destroy      *)
(* receives a handle that is neither null nor the handle of a resource      *)
(* that was created.                                                        *)
C26_NoNeverCreatedHandle ==
  \A f \in faults : f.why /= "garbage"

(* C27: destroy called a second time, and createColorBuffer or              *)
(* createDepthBuffer called after destroy, destroy or free no handle of a   *)
(* render target that has already been destroyed.                           *)
C27_DestroyIdempotent ==
  \A f \in faults : f.why = "destroyed" => f.member \notin ColorTarget \cup DepthTarget

(* C28: wherever a render target is destroyed (createColorBuffer,           *)
(* createDepthBuffer, destroy) its view is destroyed first, then its        *)
(* image, then its memory is freed.                                         *)
Destroys(member) ==
  {i \in 1 .. Len(lastCall.log) :
     /\ lastCall.log[i][2] = member
     /\ lastCall.log[i][1] \in {"vkDestroyImageView", "vkDestroyImage", "vkFreeMemory"}}

InOrder(a, b) == \A i \in a : \A j \in b : i < j

ViewImageMemory(view, image, memory) ==
  /\ InOrder(Destroys(view), Destroys(image))
  /\ InOrder(Destroys(image), Destroys(memory))
  /\ InOrder(Destroys(view), Destroys(memory))
  /\ \A i \in Destroys(view) \cup Destroys(image) \cup Destroys(memory) :
       InOrder({i}, LogIndex(lastCall.log, "vkCreateImage", image))

C28_ViewImageMemory ==
  /\ lastCall.op \in {"createColorBuffer", "destroy"} =>
       ViewImageMemory("m_colorView", "m_colorImage", "m_colorMemory")
  /\ lastCall.op \in {"createDepthBuffer", "destroy"} =>
       ViewImageMemory("m_depthView", "m_depthImage", "m_depthMemory")
  /\ lastCall.op = "destroy" =>
       \A member \in ColorTarget \cup DepthTarget : Cardinality(Destroys(member)) = 1
  /\ lastCall.op = "createColorBuffer" =>
       \A member \in ColorTarget :
         Cardinality(Destroys(member)) = IF lastCall.pre[member] = VK_NULL_HANDLE THEN 0 ELSE 1
  /\ lastCall.op = "createDepthBuffer" =>
       \A member \in DepthTarget :
         Cardinality(Destroys(member)) = IF lastCall.pre[member] = VK_NULL_HANDLE THEN 0 ELSE 1

C28_Witness ==
  /\ lastCall.op = "createColorBuffer" /\ lastCall.returned
  /\ lastCall.run = 2
  /\ \A member \in ColorTarget : Cardinality(Destroys(member)) = 1

(* C24: createFrameBuffer destroys the framebuffer the member holds before  *)
(* it creates the new one: at most one framebuffer is alive after any       *)
(* number of createFrameBuffer calls.                                       *)
C24_AtMostOneFramebuffer ==
  /\ Cardinality(Framebuffers) <= 1
  /\ ( /\ lastCall.op = "createFrameBuffer" /\ lastCall.returned
       /\ ~lastCall.pre.m_useDynamicRendering ) =>
         /\ Framebuffers = {app.m_framebuffer}
         /\ ~IsLive(objs, lastCall.pre.m_framebuffer)
         /\ Len(lastCall.log) = 2
         /\ lastCall.log[1] = <<"vkDestroyFramebuffer", "m_framebuffer",
                                lastCall.pre.m_framebuffer>>
         /\ lastCall.log[2] = <<"vkCreateFramebuffer", "m_framebuffer", app.m_framebuffer>>

C24_Witness ==
  /\ lastCall.op = "createFrameBuffer" /\ lastCall.returned
  /\ lastCall.run = 3
  /\ Cardinality({h \in 1 .. Len(objs) : objs[h].kind = "framebuffer"}) = 3
  /\ Cardinality(Framebuffers) = 1

(* C21: after any number of createCommandBuffer calls exactly one           *)
(* persistent command buffer is allocated from the pool and it is in the    *)
(* recording state; the buffer the member held before the call has been     *)
(* freed, and the free precedes the allocation.                             *)
CommandBuffers ==
  {h \in 1 .. Len(objs) : objs[h].kind = "commandBuffer" /\ objs[h].alive}

C21_OnePersistentCommandBuffer ==
  lastCall.op = "createCommandBuffer" /\ lastCall.returned =>
    /\ CommandBuffers = {app.m_commandBuffer}
    /\ objs[app.m_commandBuffer].info = <<"m_cmdPool", "recording">>
    /\ ~IsLive(objs, lastCall.pre.m_commandBuffer)
    /\ lastCall.pre.m_commandBuffer /= VK_NULL_HANDLE =>
         \E i \in LogIndex(lastCall.log, "vkFreeCommandBuffers", "m_commandBuffer") :
           \A j \in LogIndex(lastCall.log, "vkAllocateCommandBuffers", "m_commandBuffer") :
             i < j /\ lastCall.log[i][3] = lastCall.pre.m_commandBuffer

C21_Witness ==
  /\ lastCall.op = "createCommandBuffer" /\ lastCall.returned
  /\ lastCall.run = 3
  /\ Cardinality({h \in 1 .. Len(objs) : objs[h].kind = "commandBuffer"}) = 3
  /\ IsLive(objs, app.m_cmdPool)

----------------------------------------------------------------------------

(* C32: the aspect mask of the depth view always holds the depth aspect,    *)
(* and holds the stencil aspect exactly when the numeric value of the       *)
(* depth format is at least that of D16_UNORM_S8_UINT; for each of the      *)
(* three formats the probing of setup can select the stencil aspect is      *)
(* included.                                                                *)
DepthViews == {h \in 1 .. Len(objs) : objs[h].kind = "view" /\ objs[h].member = "m_depthView"}

C32_DepthViewAspect ==
  \A h \in DepthViews :
    LET format == objs[h].info[1]
        aspectMask == objs[h].info[2]
    IN  /\ "DEPTH" \in aspectMask
        /\ "STENCIL" \in aspectMask <=> format >= VK_FORMAT_D16_UNORM_S8_UINT
        /\ aspectMask \subseteq {"DEPTH", "STENCIL"}
        /\ (\E i \in 1 .. Len(DepthCandidates) : format = DepthCandidates[i]) =>
             "STENCIL" \in aspectMask

C32_Witness ==
  /\ NoDepthFormatGiven
  /\ \E h \in DepthViews :
       /\ objs[h].alive
       /\ objs[h].info = <<VK_FORMAT_D16_UNORM_S8_UINT, {"DEPTH", "STENCIL"}>>

(* C33: setup probes the device for a depth format only when the caller     *)
(* supplies none; a depth format the caller supplies is stored unchanged,   *)
(* whatever the candidates the device supports.                             *)
C33_CallerFormatKept ==
  SetupDone =>
    /\ ~NoDepthFormatGiven => app.m_depthFormat = env.depthFormat
    /\ NoDepthFormatGiven =>
         app.m_depthFormat = ProbeDepthFormat(env.formatProps, 1, VK_FORMAT_UNDEFINED)

C33_Witness ==
  /\ SetupDone
  /\ env.depthFormat = 126
  /\ \A i \in 1 .. Len(DepthCandidates) : Qualifies(DepthCandidates[i])
  /\ app.m_depthFormat = 126

(* C37 as stated: during destroy the framebuffer is destroyed before the    *)
(* image views and the render pass it was built from.                       *)
DestroyCalled == lastCall.op = "destroy"
Destroyed(fn, member) == LogIndex(lastCall.log, fn, member)

DestroyFunctions ==
  {"vkDestroyRenderPass", "vkDestroyImageView", "vkDestroyImage", "vkFreeMemory",
   "vkDestroyPipelineCache", "vkDestroyFramebuffer", "vkFreeCommandBuffers",
   "vkDestroyFence", "vkDestroyDescriptorPool", "vkDestroyCommandPool"}

C37_FramebufferBeforeItsParts ==
  DestroyCalled =>
    /\ InOrder(Destroyed("vkDestroyFramebuffer", "m_framebuffer"),
               Destroyed("vkDestroyImageView", "m_colorView"))
    /\ InOrder(Destroyed("vkDestroyFramebuffer", "m_framebuffer"),
               Destroyed("vkDestroyImageView", "m_depthView"))
    /\ InOrder(Destroyed("vkDestroyFramebuffer", "m_framebuffer"),
               Destroyed("vkDestroyRenderPass", "m_renderPass"))

(* C37: during destroy the device-idle wait precedes every destruction and  *)
(* the command buffer is freed before its pool is destroyed; the            *)
(* framebuffer is destroyed after the render pass and the image views it    *)
(* was built from, and between their destruction and its own the only       *)
(* calls made are destroy and free calls.                                   *)
C37_DestroyOrder ==
  DestroyCalled =>
    /\ lastCall.log[1][1] = "vkDeviceWaitIdle"
    /\ \A i \in 2 .. Len(lastCall.log) :
         \E member \in DOMAIN lastCall.pre :
           /\ lastCall.log[i] = <<lastCall.log[i][1], member, lastCall.pre[member]>>
           /\ lastCall.log[i][1] \in DestroyFunctions
    /\ Cardinality(Destroyed("vkFreeCommandBuffers", "m_commandBuffer")) = 1
    /\ Cardinality(Destroyed("vkDestroyCommandPool", "m_cmdPool")) = 1
    /\ Cardinality(Destroyed("vkDestroyFramebuffer", "m_framebuffer")) = 1
    /\ InOrder(Destroyed("vkFreeCommandBuffers", "m_commandBuffer"),
               Destroyed("vkDestroyCommandPool", "m_cmdPool"))
    /\ InOrder(Destroyed("vkDestroyImageView", "m_colorView"),
               Destroyed("vkDestroyFramebuffer", "m_framebuffer"))
    /\ InOrder(Destroyed("vkDestroyImageView", "m_depthView"),
               Destroyed("vkDestroyFramebuffer", "m_framebuffer"))
    /\ InOrder(Destroyed("vkDestroyRenderPass", "m_renderPass"),
               Destroyed("vkDestroyFramebuffer", "m_framebuffer"))

C37_Witness ==
  /\ DestroyCalled /\ lastCall.returned /\ faults = {}
  /\ IsObject(objs, lastCall.pre.m_framebuffer)
  /\ lastCall.pre.m_colorView \in objs[lastCall.pre.m_framebuffer].refs
  /\ lastCall.pre.m_renderPass \in objs[lastCall.pre.m_framebuffer].refs
  /\ IsObject(objs, lastCall.pre.m_colorView) /\ IsObject(objs, lastCall.pre.m_renderPass)
  /\ \A h \in 1 .. Len(objs) : ~objs[h].alive

(* Properties of the renderer switch and the frame state (under Spec)       *)

(* positions of a call in the calls of the last member function *)
Pos(c) == {i \in 1 .. Len(lastCall.calls) : lastCall.calls[i] = c}

IsDestroy(c) == c[1] = "destroy"
IsCreate(c) == c[1] = "create"

SameSelection == lastCall.op = "createRender" /\ lastCall.arg = lastCall.preMethod
Switched == /\ lastCall.op = "createRender"
            /\ lastCall.arg /= lastCall.preMethod
            /\ lastCall.returned

(* C1: createRender(m) with m equal to the active selection waits for no    *)
(* device idle, destroys and creates no backend and leaves the selection.   *)
C1_SameMethodNoOp ==
  SameSelection =>
    /\ lastCall.calls = <<>>
    /\ m_rndMethod = lastCall.preMethod
    /\ lastCall.returned

C1_Witness == SameSelection /\ lastCall.arg = eRayQuery

(* C2: createRender(m) with m different from the active selection destroys  *)
(* the previously active backend (only when there was one) strictly before  *)
(* it creates the newly selected one, and m is the selection on return.     *)
C2_DestroyBeforeCreate ==
  Switched =>
    /\ m_rndMethod = lastCall.arg
    /\ Pos(Create(lastCall.arg)) /= {}
    /\ \A i \in 1 .. Len(lastCall.calls) :
         /\ IsCreate(lastCall.calls[i]) => lastCall.calls[i] = Create(lastCall.arg)
         /\ IsDestroy(lastCall.calls[i]) =>
              /\ lastCall.preMethod /= eNone
              /\ lastCall.calls[i] = Destroy(lastCall.preMethod)
    /\ lastCall.preMethod /= eNone =>
         /\ Pos(Destroy(lastCall.preMethod)) /= {}
         /\ \A i \in Pos(Destroy(lastCall.preMethod)) :
              \A j \in Pos(Create(lastCall.arg)) : i < j

C2_Witness ==
  Switched /\ lastCall.preMethod = eRtxPipeline /\ lastCall.arg = eRayQuery

(* C3: in every state reached by createRender calls at most one backend is  *)
(* created (constructed by create and not destroyed).                       *)
CreatedSlots == {s \in Slots : m_pRender[s] = "created"}

C3_AtMostOneCreated == Cardinality(CreatedSlots) <= 1

C3_Witness ==
  /\ m_pRender[eRtxPipeline] = "destroyed"
  /\ m_pRender[eRayQuery] = "created"
  /\ lastCall.op = "createRender"

(* C4: every destruction of a backend, in createRender or in                *)
(* destroyResources, follows a device-idle wait with no queue submission    *)
(* in between, and finds no command buffer in flight.                       *)
C4_DestroyAfterIdle ==
  \A e \in destroyLog : e.idleWaited /\ e.inFlight = 0

C4_Witness ==
  /\ \E e \in destroyLog : e.by = "createRender" /\ e.was = "created" /\ ~e.idleAtEntry
  /\ \E e \in destroyLog : e.by = "destroyResources" /\ e.was = "created"

(* C13: submitWork and submitTempCmdBuffer return only after the command    *)
(* buffer they submitted has completed: at most one command buffer is in    *)
(* flight on the queue, and none while the host is outside a submission     *)
(* (recording) or destroys a backend.                                       *)
Submissions == {"submitWork", "submitTempCmdBuffer"}

C13_OneInFlight ==
  /\ inFlight <= 1
  /\ host = "idle" => inFlight = 0
  /\ lastCall.op \in Submissions /\ lastCall.returned => inFlight = 0
  /\ \A e \in destroyLog : e.inFlight = 0

C13_Witness ==
  /\ lastCall.op = "submitTempCmdBuffer" /\ lastCall.returned
  /\ host = "idle" /\ ~idleWaited
  /\ m_pRender[eRtxPipeline] = "created"

(* C9: setRenderRegion(r) sets the frame counter to -1 when r differs in    *)
(* some byte from the stored region, leaves it when r is byte-identical,    *)
(* and stores r either way.                                                 *)
BytesDiffer(a, b) == \E i \in 1 .. 16 : RectBytes(a)[i] /= RectBytes(b)[i]

C9_RegionResetsFrame ==
  lastCall.op = "setRenderRegion" =>
    /\ m_renderRegion = lastCall.arg
    /\ m_rtxState.frame = IF BytesDiffer(lastCall.arg, lastCall.preRegion)
                          THEN -1 ELSE lastCall.preFrame

C9_Witness ==
  /\ lastCall.op = "setRenderRegion"
  /\ lastCall.preFrame = 0
  /\ lastCall.arg.x = -1
  /\ lastCall.arg.width = lastCall.preRegion.width
  /\ lastCall.arg.height = lastCall.preRegion.height

(* C10 as stated: whenever createRender switches the backend, the frame     *)
(* counter is -1 when it returns.                                           *)
C10_SwitchResetsFrame == Switched => m_rtxState.frame = -1

(* C10 amended: createRender leaves the frame counter as it found it; the   *)
(* reset after a switch is the caller's resetFrame().                       *)
C10_SwitchKeepsFrame == Switched => m_rtxState.frame = lastCall.preFrame

C10_Witness == Switched /\ m_rtxState.frame = 0 /\ lastCall.preMethod /= eNone

----------------------------------------------------------------------------
(* Properties of the backend table and of renderScene (under Spec)          *)

(* the calls of the last member function that are made on a backend *)
BackendCalls ==
  {i \in 1 .. Len(lastCall.calls) :
     lastCall.calls[i][1] \in {"destroy", "create", "setPushContants", "run"}}

(* C34: createRender and renderScene never index the backend table outside  *)
(* its two slots: for every RndMethod argument of createRender, eNone       *)
(* included, and every prior selection, the slot whose destroy, create,     *)
(* setPushConstants or run is invoked is one of the two backends            *)
(* constructed in setup.                                                    *)
C34_InsideTheTable ==
  lastCall.op \in {"createRender", "renderScene"} =>
    /\ \A i \in BackendCalls : lastCall.calls[i][2] \in Slots
    /\ lastCall.returned

(* C35: in every state reachable through createRender and destroyResources  *)
(* the selected backend, if the selection is not eNone, is in the created   *)
(* state, and no backend is destroyed twice or destroyed without having     *)
(* been created.                                                            *)
C35_SelectionIsCreated ==
  phase /= "crashed" =>
    /\ m_rndMethod /= eNone => m_pRender[m_rndMethod] = "created"
    /\ \A e \in destroyLog : e.was = "created"

(* C36: renderScene invokes setPushConstants and run of the active backend, *)
(* in this order and with the frame counter as it is (-1 included), exactly *)
(* when the frame counter is below m_maxFrames, invokes neither otherwise,  *)
(* and never changes the frame counter.                                     *)
RenderSceneCalled == lastCall.op = "renderScene"

C36_RendersBelowTheLimit ==
  RenderSceneCalled =>
    /\ m_rtxState.frame = lastCall.preFrame
    /\ m_rndMethod = lastCall.preMethod
    /\ lastCall.preFrame >= lastCall.arg => lastCall.calls = <<>>
    /\ lastCall.preFrame < lastCall.arg =>
         lastCall.calls = <<<<"setPushContants", lastCall.preMethod, lastCall.preFrame>>,
                            <<"run", lastCall.preMethod>>>>
    /\ (lastCall.preFrame < lastCall.arg /\ lastCall.preMethod \in Slots) =>
         /\ lastCall.returned
         /\ m_pRender[lastCall.preMethod] = "created"

C36_Witness ==
  /\ RenderSceneCalled /\ lastCall.returned
  /\ lastCall.preFrame = -1 /\ lastCall.arg = m_maxFrames
  /\ lastCall.calls = <<<<"setPushContants", eRayQuery, -1>>, <<"run", eRayQuery>>>>

----------------------------------------------------------------------------

(* SpecCapture: SampleExample::dumpImage called repeatedly on an object     *)
(* that has been set up and has its color target; headless.ppm may be       *)
(* writable or not                                                          *)

(* the dumpImage calls followed *)
MaxCaptures == 2

CaptureEnvs ==
  { [formatProps |-> AllDepthFormats, memoryTypes |-> md.memoryTypes,
     memoryTypeBits |-> md.memoryTypeBits, asserts |-> as,
     depthFormat |-> VK_FORMAT_UNDEFINED,
     width |-> w, height |-> h, rowPitch |-> 4 * w + 4, offset |-> 0,
     colorFormat |-> VK_FORMAT_B8G8R8A8_UNORM, writable |-> writable] :
      md \in {d \in MainMemoryDevices :
                \E i \in 1 .. Len(d.memoryTypes) :
                  VK_MEMORY_PROPERTY_DEVICE_LOCAL_BIT \subseteq d.memoryTypes[i]},
      as \in BOOLEAN, w \in 1 .. MaxWidth, h \in 1 .. MaxHeight, writable \in BOOLEAN }

(* the object after setup and createColorBuffer *)
ReadyToCapture ==
  LET a0 == [m |-> DumpLocals @@ Constructed([x \in Uninitialized |-> VK_NULL_HANDLE]),
             objs |-> <<>>, faults |-> {}, log |-> <<>>, status |-> "ok"]
      a1 == Run(a0, setup(a0.m, env.depthFormat))
  IN  Run(a1, createColorBuffer(a1.m))

InitCapture ==
  /\ phase = "running"
  /\ pc = 0
  /\ loader = 0
  /\ file = NoFile
  /\ trace = <<>>
  /\ gpu = NoCommands
  /\ env \in CaptureEnvs
  /\ app = ReadyToCapture.m
  /\ objs = ReadyToCapture.objs
  /\ faults = {}
  /\ ncalls = 0
  /\ lastCall = NoAppCall
  /\ m_pRender = [s \in Slots |-> "setup"]
  /\ m_rndMethod = eNone
  /\ m_rtxState = [frame |-> 0]
  /\ m_renderRegion = [x |-> 0, y |-> 0, width |-> 0, height |-> 0]
  /\ host = "idle"
  /\ inFlight = 0
  /\ idleWaited = FALSE
  /\ fences = 0
  /\ destroyLog = {}

(* dumpImage is called *)
CaptureCall ==
  /\ phase = "running"
  /\ pc = 0
  /\ ncalls < MaxCaptures
  /\ ncalls' = ncalls + 1
  /\ pc' = 1
  /\ UNCHANGED <<phase, lastCall, renderVars, env, app, objs, faults, loader, file, trace, gpu>>

(* one statement of dumpImage; after the last one it returns *)
CaptureStep ==
  /\ pc \in 1 .. Len(dumpImageSteps)
  /\ Do("main", dumpImageSteps[pc])
  /\ pc' = IF pc = Len(dumpImageSteps) THEN 0 ELSE pc + 1
  /\ loader' = loader

NextCapture ==
  \/ CaptureCall
  \/ CaptureStep
  \/ GpuComplete

SpecCapture == InitCapture /\ [][NextCapture]_vars

----------------------------------------------------------------------------
(* Properties of the run of main (under SpecMain, SpecMainFair)             *)

(* the statements executed so far that carry the label *)
Executed(label) == {i \in 1 .. Len(trace) : trace[i].label = label}

LoaderFinished(n) == n > Len(loaderThread)

(* C14: the capture copy of dumpImage is recorded and submitted only after  *)
(* the per-frame command buffer has been ended, submitted and completed     *)
(* and a device-idle wait has returned.                                     *)
CaptureSteps == {"dumpImage.vkCmdCopyImage", "dumpImage.submitWork.vkQueueSubmit"}

C14_CaptureAfterIdle ==
  \A i \in 1 .. Len(trace) :
    trace[i].label \in CaptureSteps =>
      /\ trace[i].inFlight = 0
      /\ trace[i].idleWaited
      /\ \E e \in Executed("vkEndCommandBuffer") :
           \E q \in Executed("submitWork.vkQueueSubmit") :
             \E w \in Executed("submitWork.vkWaitForFences") :
               \E d \in Executed("vkDeviceWaitIdle") :
                 e < q /\ q < w /\ w < d /\ d < i

C14_Witness ==
  /\ Executed("dumpImage.submitWork.vkQueueSubmit") /= {}
  /\ inFlight = 1

(* C15: when a fatal configuration condition arises (no candidate depth     *)
(* format is supported, or no memory type matches a requested property      *)
(* mask), the run ends without headless.ppm being opened or written.        *)
NoType(properties) == getMemoryType(env.memoryTypeBits, properties) = NoMemoryType

FatalCondition ==
  \/ NoneQualifies
  \/ NoType(VK_MEMORY_PROPERTY_DEVICE_LOCAL_BIT)
  \/ NoType(VK_MEMORY_PROPERTY_HOST_VISIBLE_BIT \cup VK_MEMORY_PROPERTY_HOST_COHERENT_BIT)

JoinIndex == Len(mainBeforeThread) + 1

C19_LoaderJoined ==
  /\ pc > JoinIndex => LoaderFinished(loader)
  /\ \A i \in 1 .. Len(trace) :
       trace[i].thread = "main" /\ trace[i].line > 139 => LoaderFinished(trace[i].loader)
  /\ \A i \in 1 .. Len(trace) : \A j \in 1 .. Len(trace) :
       trace[i].thread = "loader" /\ trace[j].thread = "main" /\ trace[j].line > 139 => i < j

C19_Witness ==
  /\ Executed("setRenderRegion") /= {}
  /\ Cardinality({i \in 1 .. Len(trace) : trace[i].thread = "loader"}) = Len(loaderThread)
  /\ m_rndMethod = eRtxPipeline
  /\ m_pRender[eRtxPipeline] = "created"

(* C20: if every submitted command buffer completes and no fatal condition  *)
(* occurs, main reaches its end: both submissions have returned,            *)
(* headless.ppm has been written once, and the render targets, the          *)
(* framebuffer, the command buffer and the backends have been released.     *)
Finished ==
  /\ phase = "exited"
  /\ file.opens = 1 /\ file.closed
  /\ inFlight = 0 /\ fences = 0
  /\ \A h \in 1 .. Len(objs) : ~objs[h].alive
  /\ \A slot \in Slots : m_pRender[slot] = "destroyed"

C20_ReachesTeardown == (pc = 1 /\ ~FatalCondition) ~> Finished

(* C25: in the run of main both render targets and the render pass exist   *)
(* when createFrameBuffer runs, and the framebuffer exists, built from      *)
(* them, before the frame's command buffer records the render pass that     *)
(* references it.                                                           *)
StatementAt(label) == CHOOSE i \in 1 .. Len(main) : main[i].label = label

About(label) == phase = "running" /\ pc = StatementAt(label)

C25_FramebufferAfterItsParts ==
  /\ About("createFrameBuffer") =>
       /\ AllLive(ColorTarget) /\ AllLive(DepthTarget)
       /\ IsLive(objs, app.m_renderPass)
       /\ objs[app.m_renderPass].kind = "renderPass"
  /\ About("vkCmdBeginRenderPass") =>
       /\ IsLive(objs, app.m_framebuffer)
       /\ objs[app.m_framebuffer].kind = "framebuffer"
       /\ objs[app.m_framebuffer].refs = {app[x] : x \in FramebufferParts}
       /\ \A x \in FramebufferParts : IsLive(objs, app[x])
       /\ IsLive(objs, app.m_commandBuffer)
       /\ objs[app.m_commandBuffer].info[2] = "recording"
       /\ Executed("createFrameBuffer") /= {}

C25_Witness ==
  /\ About("vkCmdBeginRenderPass")
  /\ IsLive(objs, app.m_framebuffer)
  /\ Cardinality(objs[app.m_framebuffer].refs) = 3

----------------------------------------------------------------------------
(* Properties of the image layouts in the run of main (under SpecMain)      *)

(* the frame's submission has completed: submitWork of main has returned *)
FrameRendered == Executed("submitWork.vkWaitForFences") /= {}

(* the commands recorded or submitted that the queue has not executed *)
Outstanding == gpu.recorded \o gpu.pending

(* C31: when the copy of dumpImage executes, the color render target is in  *)
(* the transfer-source layout, the layout the copy names for it: the        *)
(* render pass leaves the color attachment in that layout at its end, and   *)
(* no command between the end of the pass and the copy changes it.          *)
C31_CopyFromTransferSource ==
  /\ \A c \in gpu.copies :
       /\ c.srcImage = "m_colorImage"
       /\ c.srcImageLayout = VK_IMAGE_LAYOUT_TRANSFER_SRC_OPTIMAL
       /\ c.srcLayout = c.srcImageLayout
  /\ FrameRendered =>
       /\ gpu.layout["m_colorImage"] = VK_IMAGE_LAYOUT_TRANSFER_SRC_OPTIMAL
       /\ \A i \in 1 .. Len(Outstanding) :
            /\ Outstanding[i][1] \notin {"vkCmdBeginRenderPass", "vkCmdEndRenderPass"}
            /\ Outstanding[i][1] = "vkCmdPipelineBarrier" => Outstanding[i][2] /= "m_colorImage"

C31_Witness ==
  /\ phase = "running"
  /\ Executed("vkCmdEndRenderPass") /= {}
  /\ \E c \in gpu.copies :
       /\ c.srcLayout = VK_IMAGE_LAYOUT_TRANSFER_SRC_OPTIMAL
       /\ c.dstLayout = VK_IMAGE_LAYOUT_TRANSFER_DST_OPTIMAL
  /\ gpu.layout["dstImage"] = VK_IMAGE_LAYOUT_GENERAL

----------------------------------------------------------------------------

(* Properties of repeated captures (under SpecCapture)                      *)

(* C30: when dumpImage has returned, the destination image, its memory and  *)
(* the copy command buffer it allocated are released, whether or not the    *)
(* file could be written; repeated captures leave no capture resource       *)
(* alive.                                                                   *)
CaptureResources == {h \in 1 .. Len(objs) : objs[h].member \in DOMAIN DumpLocals}

C30_CaptureResourcesReleased ==
  phase = "running" /\ pc = 0 =>
    /\ \A h \in CaptureResources : ~objs[h].alive
    /\ Cardinality(CaptureResources) = 3 * ncalls
    /\ fences = 0 /\ inFlight = 0
    /\ faults = {}
    /\ AllLive(ColorTarget) /\ IsLive(objs, app.m_cmdPool)

C30_Witness ==
  /\ phase = "running" /\ pc = 0
  /\ ncalls = 2
  /\ ~env.writable /\ file = NoFile
  /\ Cardinality(CaptureResources) = 6

====
